---- MODULE Spec2Model ----
(***************************************************************************)
(* Abalone: the rule engine (src/src/lib.rs) and the room server           *)
(* (src/server/src/main.rs).                                               *)
(*                                                                         *)
(* Three specifications share this module:                                 *)
(*   Spec        the room server: connections, the room registry, rooms,   *)
(*               join transactions, undo negotiation, outbound channels,   *)
(*               a handler being one step;                                 *)
(*   SpecEngine  one Abalone game driven through check_selection,          *)
(*               check_move, submit_move, undo_move and redo_move;         *)
(*   SpecGuards  the room server with a step for every acquisition of the  *)
(*               registry guard and of a room guard.                       *)
(***************************************************************************)
EXTENDS Integers, Sequences, FiniteSets, TLC

VARIABLES
    game,       \* SpecEngine: the Abalone value (balls, turn, history, redo)
    res,        \* SpecEngine: the last engine call and what it returned
    conn,       \* Spec: each connection: "idle", "live", "ended" or "panicked"
    place,      \* Spec: receiver_task's local `room` of each connection
    next_id,    \* Spec: AppState.next_id
    registry,   \* Spec: the keys of AppState.rooms
    rooms,      \* Spec: every Room created so far (an Arc outlives the registry)
    next_tx,    \* Spec: the next fresh TransactionId
    chan,       \* Spec: each connection's outbound channel
    joined,     \* Spec: the transaction ids a JoinRoom has succeeded with
    allowed,    \* Spec: the transaction ids an AllowJoinRoom has succeeded with
    local,      \* Spec: each client's RoomState once it has folded what was queued
    done,       \* Spec: the handler that ran last, and what it queued
    pc,         \* SpecGuards: where each receiver_task stands in its handler
    state_lock, \* SpecGuards: the RwLock around AppState
    room_locks  \* SpecGuards: the RwLock around each Room

evars == <<game, res>>
gvars == <<pc, state_lock, room_locks>>
svars == <<conn, place, next_id, registry, rooms, next_tx, chan, joined, allowed, local, done,
           gvars>>
vars == <<game, res, conn, place, next_id, registry, rooms, next_tx, chan, joined, allowed, local,
          done, pc, state_lock, room_locks>>

(***************************************************************************)
(* Board geometry (src/src/lib.rs)                                         *)
(***************************************************************************)
SIZE == 9

UNIT_X == <<1, 0>>
UNIT_Y == <<0, 1>>
UNIT_Z == <<1, 1>>
ZERO == <<0, 0>>

Black == "Black"
White == "White"
Colors == {Black, White}
\* a cell of `balls` holding no ball (the inner Option is None)
Empty == "Empty"
\* what get returns for a position that is not on the board (the outer None)
None == "None"

opposite(c) == IF c = Black THEN White ELSE Black

\* Pos2 + Vec2
PosAdd(p, v) == <<p[1] + v[1], p[2] + v[2]>>
\* Pos2 - Pos2, a Vec2
PosSub(a, b) == <<a[1] - b[1], a[2] - b[2]>>
VecNeg(v) == <<-v[1], -v[2]>>
VecMul(v, k) == <<v[1] * k, v[2] * k>>

signum(n) == IF n > 0 THEN 1 ELSE IF n < 0 THEN -1 ELSE 0
iabs(n) == IF n < 0 THEN -n ELSE n
imax(a, b) == IF a >= b THEN a ELSE b

mag(v) ==
    IF signum(v[1]) = signum(v[2])
    THEN imax(iabs(v[1]), iabs(v[2]))
    ELSE iabs(v[1]) + iabs(v[2])

norm(v) == <<signum(v[1]), signum(v[2])>>

is_multiple_of_unit_vec(v) == v[1] = 0 \/ v[2] = 0 \/ v[1] = v[2]

\* is_parallel without the test of the zero vector
is_parallel_cross_only(a, b) == a[1] * b[2] = a[2] * b[1]

is_parallel(a, b) ==
    IF a = ZERO \/ b = ZERO
    THEN a = b
    ELSE a[1] * b[2] = a[2] * b[1]

Dirs == <<"PosX", "PosY", "PosZ", "NegX", "NegY", "NegZ">>
DirSet == {Dirs[i] : i \in 1..6}

DirVec(d) ==
    CASE d = "PosX" -> UNIT_X
      [] d = "PosY" -> UNIT_Y
      [] d = "PosZ" -> UNIT_Z
      [] d = "NegX" -> VecNeg(UNIT_X)
      [] d = "NegY" -> VecNeg(UNIT_Y)
      [] d = "NegZ" -> VecNeg(UNIT_Z)

\* is_in_bounds without the two diagonal tests: the whole 9 x 9 grid
is_in_bounds_square(pos) ==
    /\ pos[1] >= 0 /\ pos[1] < SIZE
    /\ pos[2] >= 0 /\ pos[2] < SIZE

is_in_bounds(pos) ==
    /\ pos[1] >= 0 /\ pos[1] < SIZE
    /\ pos[2] >= 0 /\ pos[2] < SIZE
    /\ pos[1] - pos[2] < 5
    /\ pos[2] - pos[1] < 5

(***************************************************************************)
(* The board: balls[y + 1][x + 1] is the cell at (x, y).                   *)
(***************************************************************************)
\* the positions ops::Index and ops::IndexMut can address; any other one
\* panics (index out of bounds, a negative i8 becomes a huge usize)
OnGrid(pos) == pos[1] \in 0..(SIZE - 1) /\ pos[2] \in 0..(SIZE - 1)

\* ops::Index: balls[y as usize][x as usize]
Index(balls, pos) == balls[pos[2] + 1][pos[1] + 1]

\* ops::IndexMut followed by an assignment
SetCell(balls, pos, v) == [balls EXCEPT ![pos[2] + 1][pos[1] + 1] = v]

RowOf(y) ==
    [x \in 1..SIZE |->
        LET cx == x - 1 IN
        CASE y = 0 /\ cx \in 0..4 -> Black
          [] y = 1 /\ cx \in 0..5 -> Black
          [] y = 2 /\ cx \in 2..4 -> Black
          [] y = 8 /\ cx \in 4..8 -> White
          [] y = 7 /\ cx \in 3..8 -> White
          [] y = 6 /\ cx \in 4..6 -> White
          [] OTHER -> Empty]

\* Abalone::new: the opening position, White to move, nothing to undo
NewGame ==
    [balls |-> [y \in 1..SIZE |-> RowOf(y - 1)],
     turn |-> White,
     history |-> <<>>,
     redo |-> <<>>]

get(g, pos) == IF ~is_in_bounds(pos) THEN None ELSE Index(g.balls, pos)

\* get_mut addresses the same cell as get
get_mut(g, pos) == IF is_in_bounds(pos) THEN Index(g.balls, pos) ELSE None

(***************************************************************************)
(* Results of check_move / check_selection                                 *)
(***************************************************************************)
Moved(dir, first, last) ==
    [kind |-> "Ok", tag |-> "Moved", dir |-> dir, first |-> first, last |-> last]
PushedAway(first, last) ==
    [kind |-> "Ok", tag |-> "PushedAway", first |-> first, last |-> last]
PushedOff(first, last) ==
    [kind |-> "Ok", tag |-> "PushedOff", first |-> first, last |-> last]

ErrWrongTurn(p) == [kind |-> "Selection", tag |-> "WrongTurn", pos |-> p]
ErrInvalidSet == [kind |-> "Selection", tag |-> "InvalidSet"]
ErrMixedSet(cells) == [kind |-> "Selection", tag |-> "MixedSet", cells |-> cells]
ErrNotABall(p) == [kind |-> "Selection", tag |-> "NotABall", pos |-> p]
ErrTooMany == [kind |-> "Selection", tag |-> "TooMany"]
ErrNoPossibleMove == [kind |-> "Selection", tag |-> "NoPossibleMove"]

ErrPushedOff(p) == [kind |-> "Move", tag |-> "PushedOff", pos |-> p]
ErrBlockedByOwn(p) == [kind |-> "Move", tag |-> "BlockedByOwn", pos |-> p]
ErrTooManyInferred(first, last) ==
    [kind |-> "Move", tag |-> "TooManyInferred", first |-> first, last |-> last]
ErrTooManyOpposing(first, last) ==
    [kind |-> "Move", tag |-> "TooManyOpposing", first |-> first, last |-> last]
ErrNotFree(cells) == [kind |-> "Move", tag |-> "NotFree", cells |-> cells]

IsOk(r) == r.kind = "Ok"

(***************************************************************************)
(* check_move (src/src/lib.rs)                                             *)
(***************************************************************************)
\* the capacities of the error payloads: MixedSet(StackVec<2, Pos2>) and
\* NotFree(StackVec<3, Pos2>); StackVec::push asserts len < SIZE
MixedSetCapacity == 2
NotFreeCapacity == 3

\* the cells first + dir * i for i = lo..hi, in that order
CellsAlong(first, v, lo, hi) ==
    [k \in 1..(IF hi >= lo THEN hi - lo + 1 ELSE 0) |-> PosAdd(first, VecMul(v, lo + k - 1))]

\* forward motion, second loop: count the opposing balls behind opposing_first
RECURSIVE CounterLoop(_, _, _, _, _, _, _)
CounterLoop(g, color, first, opposing_first, dir, force, opposing_force) ==
    LET p == PosAdd(opposing_first, VecMul(DirVec(dir), opposing_force))
        c == get(g, p)
        last == PosAdd(opposing_first, VecMul(DirVec(dir), opposing_force - 1))
    IN  IF c \in Colors
        THEN IF c # opposite(color)
             THEN ErrBlockedByOwn(p)
             ELSE IF opposing_force >= force - 1
                  THEN ErrTooManyOpposing(opposing_first, p)
                  ELSE CounterLoop(g, color, first, opposing_first, dir, force,
                                   opposing_force + 1)
        ELSE IF c = Empty
             THEN PushedAway(first, last)
             ELSE PushedOff(first, last)

\* forward motion whose MixedSet payload starts at first itself
RECURSIVE ForwardLoop_payload_from_first(_, _, _, _, _, _)
ForwardLoop_payload_from_first(g, color, first, dir, m, force) ==
    LET p == PosAdd(first, VecMul(DirVec(dir), force))
        c == get(g, p)
    IN  IF c \in Colors /\ c # color
        THEN IF force < m
             THEN ErrMixedSet(CellsAlong(first, DirVec(dir), 0, m))
             ELSE CounterLoop(g, color, first, p, dir, force, 1)
        ELSE IF c \in Colors
             THEN IF force >= 3
                  THEN ErrTooManyInferred(first, p)
                  ELSE ForwardLoop_payload_from_first(g, color, first, dir, m, force + 1)
             ELSE IF c = Empty
                  THEN Moved(dir, first, PosAdd(first, VecMul(DirVec(dir), force - 1)))
                  ELSE ErrPushedOff(PosAdd(first, VecMul(DirVec(dir), force - 1)))

\* forward motion, first loop: count the own balls in front of first
RECURSIVE ForwardLoop(_, _, _, _, _, _)
ForwardLoop(g, color, first, dir, m, force) ==
    LET p == PosAdd(first, VecMul(DirVec(dir), force))
        c == get(g, p)
    IN  IF c \in Colors /\ c # color
        THEN IF force < m
             THEN ErrMixedSet(CellsAlong(first, DirVec(dir), force, m))
             ELSE CounterLoop(g, color, first, p, dir, force, 1)
        ELSE IF c \in Colors
             THEN IF force >= 3
                  THEN ErrTooManyInferred(first, p)
                  ELSE ForwardLoop(g, color, first, dir, m, force + 1)
             ELSE IF c = Empty
                  THEN Moved(dir, first, PosAdd(first, VecMul(DirVec(dir), force - 1)))
                  ELSE ErrPushedOff(PosAdd(first, VecMul(DirVec(dir), force - 1)))

\* sideward motion that stops at the first destination that is not free
Sideward_first_not_free(g, color, first, last, nrm, dir, m) ==
    LET span == CellsAlong(first, nrm, 1, m)
        holes == {i \in 1..m : get(g, span[i]) \notin Colors}
        mixed_set == SelectSeq(span, LAMBDA p : get(g, p) # color)
        line == CellsAlong(first, nrm, 0, m)
        dest(i) == PosAdd(line[i], DirVec(dir))
        off == {i \in 1..(m + 1) : get(g, dest(i)) = None}
        non_free == SelectSeq([i \in 1..(m + 1) |-> dest(i)],
                              LAMBDA p : get(g, p) \in Colors)
    IN  IF holes # {}
        THEN ErrNotABall(span[CHOOSE i \in holes : \A j \in holes : i <= j])
        ELSE IF mixed_set # <<>>
        THEN ErrMixedSet(mixed_set)
        ELSE IF off # {}
        THEN ErrPushedOff(line[CHOOSE i \in off : \A j \in off : i <= j])
        ELSE IF non_free # <<>>
        THEN ErrNotFree(<<non_free[1]>>)
        ELSE Moved(dir, first, last)

\* sideward motion
Sideward(g, color, first, last, nrm, dir, m) ==
    LET span == CellsAlong(first, nrm, 1, m)
        holes == {i \in 1..m : get(g, span[i]) \notin Colors}
        mixed_set == SelectSeq(span, LAMBDA p : get(g, p) # color)
        line == CellsAlong(first, nrm, 0, m)
        dest(i) == PosAdd(line[i], DirVec(dir))
        off == {i \in 1..(m + 1) : get(g, dest(i)) = None}
        non_free == SelectSeq([i \in 1..(m + 1) |-> dest(i)],
                              LAMBDA p : get(g, p) \in Colors)
    IN  IF holes # {}
        THEN ErrNotABall(span[CHOOSE i \in holes : \A j \in holes : i <= j])
        ELSE IF mixed_set # <<>>
        THEN ErrMixedSet(mixed_set)
        ELSE IF off # {}
        THEN ErrPushedOff(line[CHOOSE i \in off : \A j \in off : i <= j])
        ELSE IF non_free # <<>>
        THEN ErrNotFree(non_free)
        ELSE Moved(dir, first, last)

\* check_move without the test of the selection's length
check_move_any_length(g, first0, last0, dir) ==
    LET c0 == get(g, first0) IN
    IF c0 \notin Colors THEN ErrNotABall(first0)
    ELSE IF c0 # g.turn THEN ErrWrongTurn(first0)
    ELSE
    LET vec0 == PosSub(last0, first0) IN
    IF vec0 # ZERO /\ ~is_multiple_of_unit_vec(vec0) THEN ErrInvalidSet
    ELSE
    LET flip == vec0 # ZERO /\ VecNeg(norm(vec0)) = DirVec(dir)
        first == IF flip THEN last0 ELSE first0
        last == IF flip THEN first0 ELSE last0
        vec == IF flip THEN VecNeg(vec0) ELSE vec0
        nrm == IF vec0 = ZERO THEN DirVec(dir) ELSE norm(vec)
        m == mag(vec)
    IN  IF nrm = DirVec(dir)
        THEN ForwardLoop(g, c0, first, dir, m, 1)
        ELSE Sideward(g, c0, first, last, nrm, dir, m)

check_move(g, first0, last0, dir) ==
    LET c0 == get(g, first0) IN
    IF c0 \notin Colors THEN ErrNotABall(first0)
    ELSE IF c0 # g.turn THEN ErrWrongTurn(first0)
    ELSE
    LET vec0 == PosSub(last0, first0) IN
    IF vec0 # ZERO /\ ~is_multiple_of_unit_vec(vec0) THEN ErrInvalidSet
    ELSE
    LET flip == vec0 # ZERO /\ VecNeg(norm(vec0)) = DirVec(dir)
        first == IF flip THEN last0 ELSE first0
        last == IF flip THEN first0 ELSE last0
        vec == IF flip THEN VecNeg(vec0) ELSE vec0
        nrm == IF vec0 = ZERO THEN DirVec(dir) ELSE norm(vec)
        m == mag(vec)
    IN  IF m >= 3 THEN ErrTooMany
        ELSE IF nrm = DirVec(dir)
             THEN ForwardLoop(g, c0, first, dir, m, 1)
             ELSE Sideward(g, c0, first, last, nrm, dir, m)

\* i8, the type of the coordinates: the values it holds, and the value an
\* operation wraps to when the build does not check for overflow
I8 == (0 - 128)..127
wrapping(n) == ((n + 128) % 256) - 128
FitsI8(v) == v[1] \in I8 /\ v[2] \in I8
WrapVec(v) == <<wrapping(v[1]), wrapping(v[2])>>
\* i8::abs overflows on i8::MIN only
AbsOverflows(v) == v[1] = 0 - 128 \/ v[2] = 0 - 128
\* an arithmetic overflow with overflow checks on: the call panics
Overflowed == [kind |-> "Panic", tag |-> "overflow"]

\* check_move on positions of any i8 coordinates: last - first, -vec and
\* the abs of vec.mag() either panic (overflow_checks) or wrap; the walks
\* start within two cells of the board and stay inside i8
check_move_i8(g, first0, last0, dir, overflow_checks) ==
    LET c0 == get(g, first0) IN
    IF c0 \notin Colors THEN ErrNotABall(first0)
    ELSE IF c0 # g.turn THEN ErrWrongTurn(first0)
    ELSE IF ~FitsI8(PosSub(last0, first0)) /\ overflow_checks THEN Overflowed
    ELSE
    LET vec0 == WrapVec(PosSub(last0, first0)) IN
    IF vec0 # ZERO /\ ~is_multiple_of_unit_vec(vec0) THEN ErrInvalidSet
    ELSE
    LET flip == vec0 # ZERO /\ VecNeg(norm(vec0)) = DirVec(dir)
        first == IF flip THEN last0 ELSE first0
        last == IF flip THEN first0 ELSE last0
        vec == IF flip THEN WrapVec(VecNeg(vec0)) ELSE vec0
        nrm == IF vec0 = ZERO THEN DirVec(dir)
               ELSE IF flip THEN VecNeg(norm(vec0)) ELSE norm(vec0)
        m == IF AbsOverflows(vec) THEN 0 - 128 ELSE mag(vec)
    IN  IF AbsOverflows(vec) /\ overflow_checks THEN Overflowed
        ELSE IF m >= 3 THEN ErrTooMany
        ELSE IF nrm = DirVec(dir)
             THEN ForwardLoop(g, c0, first, dir, m, 1)
             ELSE Sideward(g, c0, first, last, nrm, dir, m)

\* check_selection: the six directions in order; the first Ok or the first
\* SelectionError ends the scan, a MoveError moves on to the next direction
RECURSIVE SelectionScan(_, _, _, _)
SelectionScan(g, first, last, i) ==
    IF i > 6 THEN ErrNoPossibleMove
    ELSE LET r == check_move(g, first, last, Dirs[i]) IN
         IF IsOk(r) THEN [kind |-> "Ok"]
         ELSE IF r.kind = "Selection" THEN r
         ELSE SelectionScan(g, first, last, i + 1)

\* check_selection that tries all six directions whatever the error
check_selection_all_dirs(g, first, last) ==
    IF \E d \in DirSet : IsOk(check_move(g, first, last, d))
    THEN [kind |-> "Ok"]
    ELSE ErrNoPossibleMove

check_selection(g, first, last) == SelectionScan(g, first, last, 1)

(***************************************************************************)
(* apply_move (src/src/lib.rs)                                             *)
(***************************************************************************)
\* for i in (0..=hi).rev(): self[pos + delta] = self[pos], and with `clear`
\* self[pos] = None, where pos = first + norm * i
RECURSIVE ShiftLoop(_, _, _, _, _, _)
ShiftLoop(balls, first, nrm, delta, i, clear) ==
    IF i < 0 THEN [balls |-> balls, panicked |-> FALSE]
    ELSE LET pos == PosAdd(first, VecMul(nrm, i))
             new == PosAdd(pos, delta)
         IN  IF ~OnGrid(pos) \/ ~OnGrid(new)
             THEN [balls |-> balls, panicked |-> TRUE]
             ELSE LET b1 == SetCell(balls, new, Index(balls, pos))
                      b2 == IF clear THEN SetCell(b1, pos, Empty) ELSE b1
                  IN  ShiftLoop(b2, first, nrm, delta, i - 1, clear)

\* apply_move whose PushedOff arm shifts the last ball too
apply_balls_nothing_dropped(balls, success) ==
    LET vec == PosSub(success.last, success.first)
        num == mag(vec)
        nrm == norm(vec)
        pushed == ShiftLoop(balls, success.first, nrm, nrm,
                            num, FALSE)
    IN  IF success.tag = "Moved"
        THEN ShiftLoop(balls, success.first, nrm, DirVec(success.dir), num, TRUE)
        ELSE IF pushed.panicked \/ ~OnGrid(success.first)
        THEN [balls |-> pushed.balls, panicked |-> TRUE]
        ELSE [balls |-> SetCell(pushed.balls, success.first, Empty), panicked |-> FALSE]

\* apply_move whose Moved arm leaves the origin cells as they were
apply_balls_origins_kept(balls, success) ==
    LET vec == PosSub(success.last, success.first)
        num == mag(vec)
        nrm == norm(vec)
        pushed == ShiftLoop(balls, success.first, nrm, nrm,
                            IF success.tag = "PushedOff" THEN num - 1 ELSE num, FALSE)
    IN  IF success.tag = "Moved"
        THEN ShiftLoop(balls, success.first, nrm, DirVec(success.dir), num, FALSE)
        ELSE IF pushed.panicked \/ ~OnGrid(success.first)
        THEN [balls |-> pushed.balls, panicked |-> TRUE]
        ELSE [balls |-> SetCell(pushed.balls, success.first, Empty), panicked |-> FALSE]

\* the cells after apply_move's match, and whether an index panicked on the
\* way (the cells written before the panic stay written)
apply_balls(balls, success) ==
    LET vec == PosSub(success.last, success.first)
        num == mag(vec)
        nrm == norm(vec)
        pushed == ShiftLoop(balls, success.first, nrm, nrm,
                            IF success.tag = "PushedOff" THEN num - 1 ELSE num, FALSE)
    IN  IF success.tag = "Moved"
        THEN ShiftLoop(balls, success.first, nrm, DirVec(success.dir), num, TRUE)
        ELSE IF pushed.panicked \/ ~OnGrid(success.first)
        THEN [balls |-> pushed.balls, panicked |-> TRUE]
        ELSE [balls |-> SetCell(pushed.balls, success.first, Empty), panicked |-> FALSE]

apply_panics(g, success) == apply_balls(g.balls, success).panicked

\* apply_move; when an index panics the call unwinds before the turn changes
apply_move(g, success) ==
    LET a == apply_balls(g.balls, success) IN
    IF a.panicked
    THEN [g EXCEPT !.balls = a.balls]
    ELSE [g EXCEPT !.balls = a.balls, !.turn = opposite(g.turn)]

(***************************************************************************)
(* Move history.  submit_move, can_undo, undo_move, can_redo and redo_move *)
(* are called by the server, the clients and the tests but are not defined *)
(* in src/; they are modelled from the specification: undo restores the    *)
(* previous board snapshot and the previous turn, redo re-applies the last *)
(* undone move.                                                            *)
(***************************************************************************)
Snapshot(g) == [balls |-> g.balls, turn |-> g.turn]

submit_move(g, success) ==
    [apply_move(g, success) EXCEPT
        !.history = Append(g.history,
                           [balls |-> g.balls, turn |-> g.turn, move |-> success]),
        !.redo = <<>>]

can_undo(g) == g.history # <<>>
can_redo(g) == g.redo # <<>>

\* undo_move that puts the cells back but not the turn
undo_move_keeps_turn(g) ==
    IF ~can_undo(g) THEN g
    ELSE LET h == g.history[Len(g.history)] IN
         [balls |-> h.balls,
          turn |-> g.turn,
          history |-> SubSeq(g.history, 1, Len(g.history) - 1),
          redo |-> Append(g.redo, h.move)]

undo_move(g) ==
    IF ~can_undo(g) THEN g
    ELSE LET h == g.history[Len(g.history)] IN
         [balls |-> h.balls,
          turn |-> h.turn,
          history |-> SubSeq(g.history, 1, Len(g.history) - 1),
          redo |-> Append(g.redo, h.move)]

redo_move(g) ==
    IF ~can_redo(g) THEN g
    ELSE LET m == g.redo[Len(g.redo)] IN
         [apply_move(g, m) EXCEPT
            !.history = Append(g.history,
                               [balls |-> g.balls, turn |-> g.turn, move |-> m]),
            !.redo = SubSeq(g.redo, 1, Len(g.redo) - 1)]

(***************************************************************************)
(* SpecEngine: one game, played the way the callers of the engine play it  *)
(* (src/src/main.rs, src/client/src/main.rs): a selection is checked with  *)
(* check_selection, a move with check_move, and only an Ok outcome of      *)
(* check_move on the current board is handed to submit_move.               *)
(***************************************************************************)
\* most moves submitted in one game
MaxPlies == 9
\* most moves undone in a row
MaxUndo == 1

\* the cells taken as the first end of a selection when a property is stated
\* for every selection: the file x = 5, where the opening has one black ball
\* against three white ones ((5, 0) is off the board), and two cells of the
\* file x = 2
Lanes == {<<5, y>> : y \in 0..8} \cup {<<2, 2>>, <<2, 3>>}

\* last - first of those selections: one to four cells along the file in
\* either orientation, a pair across the file x = 4, and a knight's jump
Offsets ==
    {<<0, 0>>, <<0, 1>>, <<0, 2>>, <<0, 3>>, <<0, -1>>, <<0, -2>>, <<2, 0>>, <<1, 2>>}

Selections ==
    {<<a, PosAdd(a, o)>> : a \in Lanes, o \in Offsets} \cup {<<(<<7, 8>>), (<<8, 8>>)>>}

\* the moves the players release: White walks the balls of its file x = 5
\* towards the black ball at (5, 1), as a pair or splitting off the front
\* ball; Black steps that ball forward or shuttles the ball at (2, 2); and
\* White may drag from (5, 8) to the position (5, 9) beyond the rim
Playable ==
    {<<(<<5, y>>), (<<5, y>>), "NegY">> : y \in 2..7}
    \cup {<<(<<5, 1>>), (<<5, 1>>), "PosY">>}
    \cup {<<(<<2, 2>>), (<<2, 2>>), "PosY">>, <<(<<2, 3>>), (<<2, 3>>), "NegY">>}
    \cup {<<(<<5, 8>>), (<<5, 9>>), "NegY">>}

\* the drags whose check_move result is recorded: the playable ones and a few
\* that are only ever checked, the last of them sideward
Drags ==
    Playable
    \cup {<<(<<5, 6>>), (<<5, 4>>), "NegY">>, <<(<<5, 8>>), (<<5, 8>>), "PosY">>}
    \cup {<<(<<7, 8>>), (<<8, 8>>), "NegZ">>, <<(<<5, 7>>), (<<5, 7>>), "PosX">>}

\* the selections whose check_selection result is recorded
Picks ==
    {<<(<<5, 6>>), (<<5, 6>>)>>, <<(<<5, 5>>), (<<5, 5>>)>>, <<(<<7, 8>>), (<<8, 8>>)>>}

NoCall == [op |-> "none"]
\* a call whose result the caller is still holding
Pending == {"check_move", "check_selection"}
\* apply_move has panicked: the program running this game is gone
Crashed == res.op = "submit_move" /\ res.panicked

InitEngine ==
    /\ game = NewGame
    /\ res = NoCall

\* the player drags over a selection: check_selection
Select(first, last) ==
    /\ res.op \notin Pending
    /\ ~Crashed
    /\ res' = [op |-> "check_selection", first |-> first, last |-> last,
               result |-> check_selection(game, first, last)]
    /\ UNCHANGED <<game, svars>>

\* the player drags a selection in a direction: check_move
Check(first, last, dir) ==
    /\ res.op \notin Pending
    /\ ~Crashed
    /\ res' = [op |-> "check_move", first |-> first, last |-> last, dir |-> dir,
               result |-> check_move(game, first, last, dir)]
    /\ UNCHANGED <<game, svars>>

\* the drag is released on an Ok outcome: submit_move
Submit ==
    /\ res.op = "check_move"
    /\ IsOk(res.result)
    /\ <<res.first, res.last, res.dir>> \in Playable
    /\ Len(game.history) < MaxPlies
    /\ game' = submit_move(game, res.result)
    /\ res' = [op |-> "submit_move", move |-> res.result, before |-> Snapshot(game),
               panicked |-> apply_panics(game, res.result)]
    /\ UNCHANGED svars

\* the drag is released on an error, or given up: nothing is submitted
Reject ==
    /\ res.op = "check_move"
    /\ res' = NoCall
    /\ UNCHANGED <<game, svars>>

\* the selection (and its error, if any) is cleared
Deselect ==
    /\ res.op = "check_selection"
    /\ res' = NoCall
    /\ UNCHANGED <<game, svars>>

Undo ==
    /\ res.op \notin Pending
    /\ ~Crashed
    /\ can_undo(game)
    /\ Len(game.redo) < MaxUndo
    /\ game' = undo_move(game)
    /\ res' = [op |-> "undo_move", before |-> Snapshot(game)]
    /\ UNCHANGED svars

Redo ==
    /\ res.op \notin Pending
    /\ ~Crashed
    /\ can_redo(game)
    /\ game' = redo_move(game)
    /\ res' = [op |-> "redo_move", before |-> Snapshot(game)]
    /\ UNCHANGED svars

NextEngine ==
    \/ \E s \in Picks : Select(s[1], s[2])
    \/ \E s \in Drags : Check(s[1], s[2], s[3])
    \/ Submit
    \/ Reject
    \/ Deselect
    \/ Undo
    \/ Redo

(***************************************************************************)
(* The room server (src/server/src/main.rs).  A handler runs from the      *)
(* message's arrival to `continue 'session` as one step.                   *)
(***************************************************************************)
\* the connections the server accepts, one receiver_task and one sender_task
\* each
Conns == {"a", "b"}
\* most rooms created, join transactions issued, moves submitted in a room
MaxRooms == 2
MaxTx == 1
MaxMoves == 2
\* most join transactions issued when nobody moves (SpecLobby)
MaxTxLobby == 2
\* most moves submitted in a room when the handlers run in steps (SpecGuards)
MaxMovesGuards == 1

RoomIds == 1..MaxRooms
TxIds == 1..MaxTx

\* the MakeMove requests the clients send: White's front ball of the file
\* x = 5 one step forward, White's drag from (8, 8) to (8, 9) beyond the rim,
\* Black's ball at (5, 1) one step forward, and the empty cell (5, 5)
Moves ==
    {<<(<<5, 6>>), (<<5, 6>>), "NegY">>,
     <<(<<8, 8>>), (<<8, 9>>), "NegY">>,
     <<(<<5, 1>>), (<<5, 1>>), "PosY">>,
     <<(<<5, 5>>), (<<5, 5>>), "PosX">>}

\* receiver_task's `room`: None, or Some(RoomState)
NoPlace == [room |-> 0, player_idx |-> 0]
RoomState(r, i) == [room |-> r, player_idx |-> i]

\* Color::try_from(player_idx as u8): the enum lists Black, then White
PlayerColor(player_idx) == IF player_idx = 0 THEN Black ELSE White

NewRoom(id, c) ==
    [id |-> id, game |-> NewGame, players |-> <<c, None>>,
     transactions |-> {}, undo_requested |-> FALSE]

\* the sessions in the slots of a room (players.iter().filter_map(..))
Occupants(room) == {room.players[i] : i \in 1..2} \ {None}
\* the pending transactions are pairs <<id, requesting connection>>
TxPending(room, tid) == \E t \in room.transactions : t[1] = tid
Requester(room, tid) == (CHOOSE t \in room.transactions : t[1] = tid)[2]

\* a MakeMove that never tests whose turn it is
turn_not_tested(room, player_idx) == FALSE

\* MakeMove's test `room_lock.game.turn != player_color`
not_players_turn(room, player_idx) == room.game.turn # PlayerColor(player_idx)

\* RequestUndo's test `room_lock.game.turn == player_color`
is_players_turn(room, player_idx) == room.game.turn = PlayerColor(player_idx)

\* a JoinRoom that goes on without a transaction
remove_not_tested(room, transaction_id) == FALSE

\* JoinRoom's test `room_lock.transactions.remove(&transaction_id).is_none()`
remove_is_none(room, transaction_id) == ~TxPending(room, transaction_id)

\* Sender::is_closed on a session that some slot or transaction still
\* holds: true once the Receiver has been dropped
is_closed(c) == ~chan[c].rx

\* send_msg: a message <<to, kind, argument>> is queued unless the channel
\* is closed, in which case the error is logged and the message dropped.
\* While the socket is open sender_task passes the queue on; the channel
\* records only whether messages wait behind a socket that has closed.
Queued(msgs) == {m \in msgs : ~is_closed(m[1])}
send_msg(msgs) ==
    chan' = [c \in Conns |->
                IF conn[c] = "ended" /\ \E m \in Queued(msgs) : m[1] = c
                THEN [chan[c] EXCEPT !.unsent = TRUE]
                ELSE chan[c]]

\* the client (src/client/src/connection.rs): RoomState::Connected, or
\* RoomState::InRoom with the room a Sync brought, or gone in a todo!()
Connected == [at |-> "Connected", room |-> 0, game |-> Snapshot(NewGame)]
InRoom(room) == [at |-> "InRoom", room |-> room.id, game |-> Snapshot(room.game)]
Gone == [at |-> "todo!()", room |-> 0, game |-> Snapshot(NewGame)]
\* ConnectionState::Disconnected, once the socket has closed
Disconnected == [at |-> "Disconnected", room |-> 0, game |-> Snapshot(NewGame)]

\* the client's receiver_task on one ServerMsg other than AppliedMove;
\* rooms_after is the state the server built the message from (a Sync
\* carries the room)
Folded(view, kind, r, rooms_after) ==
    IF view.at = "todo!()" THEN view
    ELSE IF kind = "Sync" THEN InRoom(rooms_after[r])
    ELSE IF kind = "SyncEmpty" THEN Connected
    ELSE IF kind \in {"JoinRoomRequested", "UndoRequested"}
    THEN IF view.at = "Connected" THEN Gone ELSE view
    ELSE view

\* the client's receiver_task on AppliedMove(m): room.game.submit_move(m)
\* on the local board, todo!() when it is in no room
FoldedMove(view, m) ==
    LET a == apply_balls(view.game.balls, m) IN
    IF view.at = "todo!()" THEN view
    ELSE IF view.at = "Connected" \/ a.panicked THEN Gone
    ELSE [view EXCEPT !.game = [balls |-> a.balls, turn |-> opposite(view.game.turn)]]

\* the messages one handler queued to a client, folded in the order they
\* were sent: SyncEmpty is LeaveRoom's last send
FoldedAll(view, msgs, rooms_after) ==
    LET first == {m \in msgs : m[2] # "SyncEmpty"}
        one == CHOOSE m \in first : TRUE
        v == IF first = {} THEN view ELSE Folded(view, one[2], one[3], rooms_after)
    IN  IF \E m \in msgs : m[2] = "SyncEmpty"
        THEN Folded(v, "SyncEmpty", 0, rooms_after)
        ELSE v

\* what the last step was: the handler, its connection, its argument, how it
\* ended, and the messages it queued; and what the clients make of them
Log(op, c, arg, result, msgs) ==
    /\ done' = [op |-> op, conn |-> c, arg |-> arg, result |-> result,
                sent |-> Queued(msgs)]
    /\ local' = [p \in Conns |->
                    IF conn[p] = "ended" \/ (op = "ConnectionEnd" /\ p = c)
                    THEN Disconnected
                    ELSE FoldedAll(local[p], {m \in Queued(msgs) : m[1] = p}, rooms')]

\* the same for an accepted MakeMove, whose AppliedMove carries the move
LogMove(c, arg, msgs, success) ==
    /\ done' = [op |-> "MakeMove", conn |-> c, arg |-> arg, result |-> "ok",
                sent |-> Queued(msgs)]
    /\ local' = [p \in Conns |->
                    IF conn[p] = "ended" THEN Disconnected
                    ELSE IF \E m \in Queued(msgs) : m[1] = p
                    THEN FoldedMove(local[p], success)
                    ELSE local[p]]

\* an early `continue 'session` that sends nothing
Fail_unsent(op, c, arg) ==
    /\ send_msg({})
    /\ Log(op, c, arg, "error", {})
    /\ UNCHANGED <<conn, place, next_id, registry, rooms, next_tx, joined, allowed>>

\* an early `continue 'session` after an Error to the caller
Fail(op, c, arg) ==
    /\ send_msg({<<c, "Error", 0>>})
    /\ Log(op, c, arg, "error", {<<c, "Error", 0>>})
    /\ UNCHANGED <<conn, place, next_id, registry, rooms, next_tx, joined, allowed>>

InitServer ==
    /\ conn = [c \in Conns |-> "idle"]
    /\ place = [c \in Conns |-> NoPlace]
    /\ next_id = 1
    /\ registry = {}
    /\ rooms = <<>>
    /\ next_tx = 1
    /\ chan = [c \in Conns |-> [rx |-> FALSE, unsent |-> FALSE]]
    /\ joined = {}
    /\ allowed = {}
    /\ local = [c \in Conns |-> Connected]
    /\ done = [op |-> "none", conn |-> None, arg |-> 0, result |-> "ok", sent |-> {}]

\* handle_socket: the channel, the two tasks, and receiver_task's Welcome
Connect(c) ==
    /\ conn[c] = "idle"
    /\ conn' = [conn EXCEPT ![c] = "live"]
    /\ chan' = [chan EXCEPT ![c] = [rx |-> TRUE, unsent |-> FALSE]]
    /\ done' = [op |-> "Connect", conn |-> c, arg |-> 0, result |-> "ok",
                sent |-> {<<c, "Welcome", 0>>}]
    /\ UNCHANGED <<place, next_id, registry, rooms, next_tx, joined, allowed, local, game, res,
                   gvars>>

\* leave_room for the RoomState of connection c
LeftRoom(c) ==
    [rooms[place[c].room] EXCEPT !.players[place[c].player_idx + 1] = None]
LeftOthers(c) ==
    {i \in {0, 1} : i # place[c].player_idx /\ LeftRoom(c).players[i + 1] # None}
LeftMsgs(c) == {<<LeftRoom(c).players[i + 1], "Sync", place[c].room>> : i \in LeftOthers(c)}
leave_room(c) ==
    /\ rooms' = [rooms EXCEPT ![place[c].room] = LeftRoom(c)]
    /\ registry' = IF LeftOthers(c) = {} THEN registry \ {LeftRoom(c).id} ELSE registry

\* the peer closes the socket: socket.next() yields None, a Ws error or
\* Close, and receiver_task leaves its room and returns (a receiver_task
\* that has panicked is no longer there to do so).  Messages queued before
\* may or may not have been passed on by then.
ConnectionEnd(c, waiting) ==
    /\ conn[c] \in {"live", "panicked"}
    /\ conn' = [conn EXCEPT ![c] = "ended"]
    /\ place' = [place EXCEPT ![c] = NoPlace]
    /\ LET msgs == IF place[c] # NoPlace THEN LeftMsgs(c) ELSE {} IN
       /\ IF place[c] # NoPlace
          THEN leave_room(c)
          ELSE UNCHANGED <<rooms, registry>>
       /\ chan' = [x \in Conns |->
                     IF x = c
                     THEN [chan[c] EXCEPT !.unsent = chan[c].rx /\ waiting]
                     ELSE IF conn[x] = "ended" /\ \E m \in Queued(msgs) : m[1] = x
                     THEN [chan[x] EXCEPT !.unsent = TRUE]
                     ELSE chan[x]]
       /\ Log("ConnectionEnd", c, place[c].room, "ok", msgs)
    /\ UNCHANGED <<next_id, next_tx, joined, allowed, game, res, gvars>>

\* a frame that does not decode handled like a transport error: the Error
\* is sent and receiver_task returns
CodecError_returns(c) ==
    /\ conn[c] = "live"
    /\ place[c] = NoPlace
    /\ conn' = [conn EXCEPT ![c] = "ended"]
    /\ send_msg({<<c, "Error", 0>>})
    /\ Log("CodecError", c, 0, "error", {<<c, "Error", 0>>})
    /\ UNCHANGED <<place, next_id, registry, rooms, next_tx, joined, allowed, game, res, gvars>>

\* a frame that does not decode: Error to the caller, the session goes on
CodecError(c) ==
    /\ conn[c] = "live"
    /\ Fail("CodecError", c, 0)
    /\ UNCHANGED <<game, res, gvars>>

CreateRoom(c) ==
    /\ conn[c] = "live"
    /\ next_id <= MaxRooms
    /\ next_id' = next_id + 1
    /\ registry' = registry \cup {next_id}
    /\ rooms' = Append(rooms, NewRoom(next_id, c))
    /\ place' = [place EXCEPT ![c] = RoomState(next_id, 0)]
    /\ send_msg({<<c, "Sync", next_id>>})
    /\ Log("CreateRoom", c, next_id, "ok", {<<c, "Sync", next_id>>})
    /\ UNCHANGED <<conn, next_tx, joined, allowed, game, res, gvars>>

ListRooms(c) ==
    /\ conn[c] = "live"
    /\ send_msg({<<c, "OpenRooms", 0>>})
    /\ Log("ListRooms", c, 0, "ok", {<<c, "OpenRooms", 0>>})
    /\ UNCHANGED <<conn, place, next_id, registry, rooms, next_tx, joined, allowed, game, res, gvars>>

Sync(c) ==
    /\ conn[c] = "live"
    /\ UNCHANGED <<conn, place, next_id, registry, rooms, next_tx, joined, allowed, game, res, gvars>>
    /\ LET msg == IF place[c] # NoPlace
                  THEN <<c, "Sync", place[c].room>>
                  ELSE <<c, "SyncEmpty", 0>>
       IN  /\ send_msg({msg})
           /\ Log("Sync", c, 0, "ok", {msg})

\* the RequestJoinRoom arm, from the test of `room` to `continue 'session`
RequestJoinRoomWithin(c, room_id, max_tx) ==
    /\ IF place[c] # NoPlace \/ room_id \notin registry
       THEN Fail("RequestJoinRoom", c, room_id)
       ELSE IF Cardinality(Occupants(rooms[room_id])) # 1
       THEN Fail("RequestJoinRoom", c, room_id)
       ELSE LET other_player == CHOOSE p \in Occupants(rooms[room_id]) : TRUE
                msg == <<other_player, "JoinRoomRequested", next_tx>>
            IN  /\ next_tx <= max_tx
                /\ next_tx' = next_tx + 1
                /\ rooms' = [rooms EXCEPT ![room_id].transactions = @ \cup {<<next_tx, c>>}]
                /\ send_msg({msg})
                /\ Log("RequestJoinRoom", c, room_id, "ok", {msg})
                /\ UNCHANGED <<conn, place, next_id, registry, joined, allowed>>

RequestJoinRoomArm(c, room_id) == RequestJoinRoomWithin(c, room_id, MaxTx)

RequestJoinRoom(c, room_id) ==
    /\ conn[c] = "live"
    /\ UNCHANGED <<game, res, gvars>>
    /\ RequestJoinRoomArm(c, room_id)

\* the same arm where a second request is still answered with a transaction
RequestJoinRoom_lobby(c, room_id) ==
    /\ conn[c] = "live"
    /\ UNCHANGED <<game, res, gvars>>
    /\ RequestJoinRoomWithin(c, room_id, MaxTxLobby)

AllowJoinRoom(c, transaction_id) ==
    /\ conn[c] = "live"
    /\ UNCHANGED <<game, res, gvars>>
    /\ IF place[c] = NoPlace
       THEN Fail("AllowJoinRoom", c, transaction_id)
       ELSE IF ~TxPending(rooms[place[c].room], transaction_id)
       THEN Fail("AllowJoinRoom", c, transaction_id)
       ELSE IF is_closed(Requester(rooms[place[c].room], transaction_id))
       THEN Fail("AllowJoinRoom", c, transaction_id)
       ELSE LET msg == <<Requester(rooms[place[c].room], transaction_id),
                         "JoinRoomAllowed", transaction_id>>
            IN  /\ send_msg({msg})
                /\ Log("AllowJoinRoom", c, transaction_id, "ok", {msg})
                /\ allowed' = allowed \cup {transaction_id}
                /\ UNCHANGED <<conn, place, next_id, registry, rooms, next_tx, joined>>

\* the JoinRoom arm: the transaction is removed before the free slot is
\* looked for
JoinRoomArm(c, room_id, transaction_id) ==
    /\ IF place[c] # NoPlace \/ room_id \notin registry
       THEN Fail("JoinRoom", c, <<room_id, transaction_id>>)
       ELSE IF remove_is_none(rooms[room_id], transaction_id)
       THEN Fail("JoinRoom", c, <<room_id, transaction_id>>)
       ELSE
       LET room == rooms[room_id]
           removed == {t \in room.transactions : t[1] # transaction_id}
           full == room.players[1] # None /\ room.players[2] # None
           player_idx == IF room.players[1] = None THEN 0 ELSE 1
           entered == [room EXCEPT !.transactions = removed,
                                   !.players[player_idx + 1] = c]
           msgs == {<<p, "Sync", room_id>> : p \in Occupants(entered)}
       IN  IF full
           THEN /\ rooms' = [rooms EXCEPT ![room_id].transactions = removed]
                /\ send_msg({<<c, "Error", 0>>})
                /\ Log("JoinRoom", c, <<room_id, transaction_id>>, "error",
                       {<<c, "Error", 0>>})
                /\ UNCHANGED <<conn, place, next_id, registry, next_tx, joined, allowed>>
           ELSE /\ rooms' = [rooms EXCEPT ![room_id] = entered]
                /\ place' = [place EXCEPT ![c] = RoomState(room_id, player_idx)]
                /\ joined' = joined \cup {transaction_id}
                /\ send_msg(msgs)
                /\ Log("JoinRoom", c, <<room_id, transaction_id>>, "ok", msgs)
                /\ UNCHANGED <<conn, next_id, registry, next_tx, allowed>>

JoinRoom(c, room_id, transaction_id) ==
    /\ conn[c] = "live"
    /\ UNCHANGED <<game, res, gvars>>
    /\ JoinRoomArm(c, room_id, transaction_id)

LeaveRoom(c) ==
    /\ conn[c] = "live"
    /\ UNCHANGED <<game, res, gvars>>
    /\ IF place[c] = NoPlace
       THEN Fail("LeaveRoom", c, 0)
       ELSE LET msgs == LeftMsgs(c) \cup {<<c, "SyncEmpty", 0>>} IN
            /\ leave_room(c)
            /\ place' = [place EXCEPT ![c] = NoPlace]
            /\ send_msg(msgs)
            /\ Log("LeaveRoom", c, place[c].room, "ok", msgs)
            /\ UNCHANGED <<conn, next_id, next_tx, joined, allowed>>

\* submit_move may panic on an index (see apply_move): the receiver task
\* dies with the room's write guard, which unwinding releases; its session
\* stays in the slot, nothing is sent and the flag is not touched
MakeMove(c, first, last, dir) ==
    /\ conn[c] = "live"
    /\ UNCHANGED <<game, res, gvars>>
    /\ IF place[c] = NoPlace
       THEN Fail("MakeMove", c, <<first, last, dir>>)
       ELSE
       LET r == place[c].room
           room == rooms[r]
           m == check_move(room.game, first, last, dir)
           msgs == {<<p, "AppliedMove", r>> : p \in Occupants(room)}
       IN  IF not_players_turn(room, place[c].player_idx)
           THEN Fail("MakeMove", c, <<first, last, dir>>)
           ELSE IF ~IsOk(m)
           THEN Fail("MakeMove", c, <<first, last, dir>>)
           ELSE IF apply_panics(room.game, m)
           THEN /\ Len(room.game.history) < MaxMoves
                /\ rooms' = [rooms EXCEPT ![r].game = submit_move(room.game, m)]
                /\ conn' = [conn EXCEPT ![c] = "panicked"]
                /\ place' = [place EXCEPT ![c] = NoPlace]
                /\ Log("MakeMove", c, <<first, last, dir>>, "panic", {})
                /\ UNCHANGED <<next_id, registry, next_tx, chan, joined, allowed>>
           ELSE /\ Len(room.game.history) < MaxMoves
                /\ rooms' = [rooms EXCEPT ![r].game = submit_move(room.game, m),
                                          ![r].undo_requested = FALSE]
                /\ send_msg(msgs)
                /\ LogMove(c, <<first, last, dir>>, msgs, m)
                /\ UNCHANGED <<conn, place, next_id, registry, next_tx, joined, allowed>>

\* the flag is set before the other slot is looked at
RequestUndo(c) ==
    /\ conn[c] = "live"
    /\ UNCHANGED <<game, res, gvars>>
    /\ IF place[c] = NoPlace
       THEN Fail("RequestUndo", c, 0)
       ELSE
       LET r == place[c].room
           room == rooms[r]
           others == {i \in {0, 1} : i # place[c].player_idx /\ room.players[i + 1] # None}
           msgs == IF others = {}
                   THEN {<<c, "Error", 0>>}
                   ELSE {<<room.players[i + 1], "UndoRequested", r>> : i \in others}
       IN  IF is_players_turn(room, place[c].player_idx) \/ ~can_undo(room.game)
           THEN Fail("RequestUndo", c, 0)
           ELSE /\ rooms' = [rooms EXCEPT ![r].undo_requested = TRUE]
                /\ send_msg(msgs)
                /\ Log("RequestUndo", c, r, IF others = {} THEN "error" ELSE "ok", msgs)
                /\ UNCHANGED <<conn, place, next_id, registry, next_tx, joined, allowed>>

AllowUndo(c) ==
    /\ conn[c] = "live"
    /\ UNCHANGED <<game, res, gvars>>
    /\ IF place[c] = NoPlace
       THEN Fail("AllowUndo", c, 0)
       ELSE
       LET r == place[c].room
           room == rooms[r]
           msgs == {<<p, "Sync", r>> : p \in Occupants(room)}
       IN  IF room.game.turn # PlayerColor(place[c].player_idx) \/ ~can_undo(room.game)
           THEN Fail("AllowUndo", c, 0)
           ELSE /\ rooms' = [rooms EXCEPT ![r].game = undo_move(room.game),
                                          ![r].undo_requested = FALSE]
                /\ send_msg(msgs)
                /\ Log("AllowUndo", c, r, "ok", msgs)
                /\ UNCHANGED <<conn, place, next_id, registry, next_tx, joined, allowed>>

\* sender_task: recv, then socket.send; on a socket that has closed the
\* send fails, todo!() panics and the Receiver is dropped with the task,
\* which closes the channel
sender_task(c) ==
    /\ conn[c] = "ended"
    /\ chan[c].rx
    /\ chan[c].unsent
    /\ chan' = [chan EXCEPT ![c] = [rx |-> FALSE, unsent |-> FALSE]]
    /\ done' = [op |-> "sender_task", conn |-> c, arg |-> 0,
                result |-> "panic", sent |-> {}]
    /\ UNCHANGED <<conn, place, next_id, registry, rooms, next_tx, joined, allowed, local, game,
                   res, gvars>>

\* the clones of c's Sender the server still stores: PlayerSession clones
\* in the slots and in the pending transactions of the registered rooms
StoredSenders(c) ==
    {r \in registry : c \in Occupants(rooms[r]) \/ \E t \in rooms[r].transactions : t[2] = c}

\* sender_task: recv gives Err once the queue is empty and every Sender is
\* dropped (receiver_task has returned and no clone is stored), and the
\* task returns
sender_task_closed(c) ==
    /\ conn[c] = "ended"
    /\ chan[c].rx
    /\ ~chan[c].unsent
    /\ StoredSenders(c) = {}
    /\ chan' = [chan EXCEPT ![c] = [rx |-> FALSE, unsent |-> FALSE]]
    /\ done' = [op |-> "sender_task", conn |-> c, arg |-> 0,
                result |-> "ok", sent |-> {}]
    /\ UNCHANGED <<conn, place, next_id, registry, rooms, next_tx, joined, allowed, local, game,
                   res, gvars>>

(***************************************************************************)
(* The guards.  tokio's RwLock: any number of read guards or one write      *)
(* guard; a guard is dropped at the end of its scope.                      *)
(***************************************************************************)
\* no guard is out
Unlocked == [w |-> None, r |-> {}]
\* RwLock::read().await and RwLock::write().await return once the guard
\* can be given
can_read(lock) == lock.w = None
\* a write guard given whatever guards are out
can_write_unguarded(lock) == TRUE
can_write(lock) == lock.w = None /\ lock.r = {}
\* receiver_task is in socket.next().await, between two requests
Loop == [at |-> "loop", op |-> "none", arg |-> <<>>]

InitGuards ==
    /\ pc = [c \in Conns |-> Loop]
    /\ state_lock = Unlocked
    /\ room_locks = [r \in RoomIds |-> Unlocked]

Init == InitEngine /\ InitServer /\ InitGuards

Next ==
    \/ \E c \in Conns : Connect(c)
    \/ \E c \in Conns : \E waiting \in BOOLEAN : ConnectionEnd(c, waiting)
    \/ \E c \in Conns : CodecError(c)
    \/ \E c \in Conns : CreateRoom(c)
    \/ \E c \in Conns : ListRooms(c)
    \/ \E c \in Conns : Sync(c)
    \/ \E c \in Conns : \E room_id \in RoomIds : RequestJoinRoom(c, room_id)
    \/ \E c \in Conns : \E t \in TxIds : AllowJoinRoom(c, t)
    \/ \E c \in Conns : \E room_id \in RoomIds : \E t \in TxIds : JoinRoom(c, room_id, t)
    \/ \E c \in Conns : LeaveRoom(c)
    \/ \E c \in Conns : \E mv \in Moves : MakeMove(c, mv[1], mv[2], mv[3])
    \/ \E c \in Conns : RequestUndo(c)
    \/ \E c \in Conns : AllowUndo(c)
    \/ \E c \in Conns : sender_task(c)
    \/ \E c \in Conns : sender_task_closed(c)

Spec == Init /\ [][Next]_vars

SpecEngine == Init /\ [][NextEngine]_vars

\* the displacements between two positions of the 9 x 9 grid; their
\* products stay within an i8
Deltas == (1 - SIZE)..(SIZE - 1)
Displacements == Deltas \X Deltas

\* two displacements are at hand (the drag and the selection in the
\* clients' pointer handling) ...
InitVec ==
    /\ game = NewGame
    /\ res \in {[op |-> "vectors", a |-> a, b |-> b] : a \in Displacements, b \in Displacements}
    /\ InitServer
    /\ InitGuards

\* ... and start_vec.is_parallel(sel_vec) is asked
Parallel ==
    /\ res.op = "vectors"
    /\ res' = [op |-> "is_parallel", a |-> res.a, b |-> res.b,
               result |-> is_parallel(res.a, res.b)]
    /\ UNCHANGED <<game, svars, gvars>>

SpecVec == InitVec /\ [][Parallel]_vars

\* the coordinates a client puts into MakeMove: the ends of i8, the rim of
\* the board, and the values 128 below the rows White starts on
WireCoords == {0 - 128, 0 - 127, 0 - 122, 0 - 121, 0 - 120, 0 - 1, 0, 5, 6, 7, 8, 9, 126, 127}
WirePositions == WireCoords \X WireCoords

\* a MakeMove has arrived, with any positions, in a build with or without
\* overflow checks ...
InitWire ==
    /\ game = NewGame
    /\ res \in {[op |-> "MakeMove", first |-> f, last |-> l, dir |-> d, overflow_checks |-> o] :
                    f \in {<<5, 6>>, <<5, 8>>, <<8, 8>>, <<9, 8>>, <<0 - 128, 127>>},
                    l \in WirePositions, d \in DirSet, o \in BOOLEAN}
    /\ InitServer
    /\ InitGuards

\* ... and the handler calls check_move([first, last], dir)
CheckWire ==
    /\ res.op = "MakeMove"
    /\ res' = [op |-> "check_move", first |-> res.first, last |-> res.last, dir |-> res.dir,
               overflow_checks |-> res.overflow_checks,
               result |-> check_move_i8(game, res.first, res.last, res.dir,
                                        res.overflow_checks)]
    /\ UNCHANGED <<game, svars, gvars>>

SpecWire == InitWire /\ [][CheckWire]_vars

\* the requests that seat and unseat players, with nobody moving
NextLobby ==
    \/ \E c \in Conns : Connect(c)
    \/ \E c \in Conns : \E waiting \in BOOLEAN : ConnectionEnd(c, waiting)
    \/ \E c \in Conns : CreateRoom(c)
    \/ \E c \in Conns : \E room_id \in RoomIds : RequestJoinRoom_lobby(c, room_id)
    \/ \E c \in Conns : \E t \in 1..MaxTxLobby : AllowJoinRoom(c, t)
    \/ \E c \in Conns : \E room_id \in RoomIds : \E t \in 1..MaxTxLobby :
            JoinRoom(c, room_id, t)
    \/ \E c \in Conns : LeaveRoom(c)
    \/ \E c \in Conns : sender_task(c)
    \/ \E c \in Conns : sender_task_closed(c)

SpecLobby == Init /\ [][NextLobby]_vars

\* the same with the sender tasks scheduled: tokio runs a spawned task that
\* is ready, a client is free never to send another request
SpecLobbyFair ==
    /\ SpecLobby
    /\ \A c \in Conns : WF_vars(sender_task(c)) /\ WF_vars(sender_task_closed(c))

(***************************************************************************)
(* The room server, guard by guard.  A receiver_task can be suspended at   *)
(* every `.await` of a guard, so a handler that takes one guard after the  *)
(* other is one step for each: from the guard it waits for to the next     *)
(* one, or to the end of the arm.  A handler that takes one guard only is  *)
(* the step of Spec, taken when that guard can be given.                   *)
(***************************************************************************)
\* the server's data, without the guards
dvars == <<conn, place, next_id, registry, rooms, next_tx, chan, joined, allowed, local, done>>

ReadBy(lock, c) == [lock EXCEPT !.r = @ \cup {c}]
WrittenBy(lock, c) == [lock EXCEPT !.w = c]
Dropped(lock, c) == [w |-> IF lock.w = c THEN None ELSE lock.w, r |-> lock.r \ {c}]
Holders(lock) == ({lock.w} \ {None}) \cup lock.r

\* `continue 'session`, the end of the arm, or unwinding: the guards of the
\* handler go out of scope
EndHandler(c) ==
    /\ pc' = [pc EXCEPT ![c] = Loop]
    /\ state_lock' = Dropped(state_lock, c)
    /\ room_locks' = [r \in RoomIds |-> Dropped(room_locks[r], c)]

\* connection c's receiver_task takes its next message
AtLoop(c) == conn[c] = "live" /\ pc[c].at = "loop"
\* the guard of the room c is in (r.room)
OwnLock(c) == room_locks[place[c].room]
\* the handlers of RequestJoinRoom under way
Requesting == {c \in Conns : pc[c].op = "RequestJoinRoom"}

\* CreateRoom: state.write().await, held to the end of the arm
CreateRoom_guarded(c) ==
    /\ AtLoop(c)
    /\ can_write(state_lock)
    /\ CreateRoom(c)

\* Sync: r.room.read().await when in a room
Sync_guarded(c) ==
    /\ AtLoop(c)
    /\ place[c] # NoPlace => can_read(OwnLock(c))
    /\ Sync(c)

\* AllowJoinRoom: r.room.read().await
AllowJoinRoom_guarded(c, transaction_id) ==
    /\ AtLoop(c)
    /\ place[c] # NoPlace => can_read(OwnLock(c))
    /\ AllowJoinRoom(c, transaction_id)

\* RequestUndo: r.room.write().await
RequestUndo_guarded(c) ==
    /\ AtLoop(c)
    /\ place[c] # NoPlace => can_write(OwnLock(c))
    /\ RequestUndo(c)

\* AllowUndo: r.room.write().await
AllowUndo_guarded(c) ==
    /\ AtLoop(c)
    /\ place[c] # NoPlace => can_write(OwnLock(c))
    /\ AllowUndo(c)

\* ListRooms: state.read().await; the guard is held over the loop
ListRooms_state(c) ==
    /\ AtLoop(c)
    /\ can_read(state_lock)
    /\ IF registry = {}
       THEN ListRooms(c)
       ELSE /\ \E r \in registry :
                pc' = [pc EXCEPT ![c] = [at |-> "r.read", op |-> "ListRooms",
                                         arg |-> <<r>>, todo |-> registry \ {r}]]
            /\ state_lock' = ReadBy(state_lock, c)
            /\ UNCHANGED <<room_locks, dvars, game, res>>

\* ListRooms: r.read().await of one room, dropped at the end of the
\* iteration; after the last room OpenRooms is sent
ListRooms_room(c) ==
    /\ pc[c].at = "r.read"
    /\ pc[c].op = "ListRooms"
    /\ can_read(room_locks[pc[c].arg[1]])
    /\ UNCHANGED <<game, res>>
    /\ IF pc[c].todo = {}
       THEN /\ send_msg({<<c, "OpenRooms", 0>>})
            /\ Log("ListRooms", c, 0, "ok", {<<c, "OpenRooms", 0>>})
            /\ EndHandler(c)
            /\ UNCHANGED <<conn, place, next_id, registry, rooms, next_tx, joined, allowed>>
       ELSE /\ \E r \in pc[c].todo :
                pc' = [pc EXCEPT ![c] = [@ EXCEPT !.arg = <<r>>, !.todo = @ \ {r}]]
            /\ UNCHANGED <<state_lock, room_locks, dvars>>

\* RequestJoinRoom: the id of the own room under r.room.read(), or
\* state.read().await and the lookup of the room
RequestJoinRoom_state(c, room_id) ==
    /\ AtLoop(c)
    /\ IF place[c] # NoPlace
       THEN can_read(OwnLock(c)) /\ RequestJoinRoom(c, room_id)
       ELSE /\ can_read(state_lock)
            /\ IF room_id \notin registry
               THEN RequestJoinRoom(c, room_id)
               ELSE /\ next_tx + Cardinality(Requesting) <= MaxTx
                    /\ pc' = [pc EXCEPT ![c] = [at |-> "open_room.write",
                                                op |-> "RequestJoinRoom",
                                                arg |-> <<room_id>>]]
                    /\ state_lock' = ReadBy(state_lock, c)
                    /\ UNCHANGED <<room_locks, dvars, game, res>>

\* RequestJoinRoom: open_room.write().await under the registry's read guard
RequestJoinRoom_room(c) ==
    /\ pc[c].at = "open_room.write"
    /\ pc[c].op = "RequestJoinRoom"
    /\ can_write(room_locks[pc[c].arg[1]])
    /\ RequestJoinRoomArm(c, pc[c].arg[1])
    /\ EndHandler(c)
    /\ UNCHANGED <<game, res>>

\* JoinRoom: as RequestJoinRoom
JoinRoom_state(c, room_id, transaction_id) ==
    /\ AtLoop(c)
    /\ IF place[c] # NoPlace
       THEN can_read(OwnLock(c)) /\ JoinRoom(c, room_id, transaction_id)
       ELSE /\ can_read(state_lock)
            /\ IF room_id \notin registry
               THEN JoinRoom(c, room_id, transaction_id)
               ELSE /\ pc' = [pc EXCEPT ![c] = [at |-> "open_room.write",
                                                op |-> "JoinRoom",
                                                arg |-> <<room_id, transaction_id>>]]
                    /\ state_lock' = ReadBy(state_lock, c)
                    /\ UNCHANGED <<room_locks, dvars, game, res>>

JoinRoom_room(c) ==
    /\ pc[c].at = "open_room.write"
    /\ pc[c].op = "JoinRoom"
    /\ can_write(room_locks[pc[c].arg[1]])
    /\ JoinRoomArm(c, pc[c].arg[1], pc[c].arg[2])
    /\ EndHandler(c)
    /\ UNCHANGED <<game, res>>

\* leave_room with nobody else in the room, up to state.write().await: the
\* slot is emptied under the room's write guard, which stays held
leave_room_alone(c, op, waiting) ==
    /\ rooms' = [rooms EXCEPT ![place[c].room] = LeftRoom(c)]
    /\ pc' = [pc EXCEPT ![c] = [at |-> "state.write", op |-> op, arg |-> <<waiting>>]]
    /\ room_locks' = [room_locks EXCEPT ![place[c].room] = WrittenBy(@, c)]
    /\ Log("leave_room", c, place[c].room, "ok", {})
    /\ UNCHANGED <<conn, place, next_id, registry, next_tx, chan, joined, allowed, state_lock,
                   game, res>>

\* LeaveRoom: room.room.write().await in leave_room
LeaveRoom_room(c) ==
    /\ AtLoop(c)
    /\ IF place[c] = NoPlace
       THEN LeaveRoom(c)
       ELSE /\ can_write(OwnLock(c))
            /\ IF LeftOthers(c) # {}
               THEN LeaveRoom(c)
               ELSE leave_room_alone(c, "LeaveRoom", FALSE)

\* the connection ends: leave_room when in a room, and receiver_task returns
ConnectionEnd_room(c, waiting) ==
    /\ pc[c].at = "loop"
    /\ IF place[c] = NoPlace
       THEN ConnectionEnd(c, waiting)
       ELSE /\ conn[c] = "live"
            /\ can_write(OwnLock(c))
            /\ IF LeftOthers(c) # {}
               THEN ConnectionEnd(c, waiting)
               ELSE leave_room_alone(c, "ConnectionEnd", waiting)

\* leave_room that does not remove the room it has emptied
leave_room_state_room_kept(c) ==
    /\ pc[c].at = "state.write"
    /\ can_write(state_lock)
    /\ registry' = registry
    /\ place' = [place EXCEPT ![c] = NoPlace]
    /\ EndHandler(c)
    /\ UNCHANGED <<next_id, rooms, next_tx, joined, allowed, game, res>>
    /\ IF pc[c].op = "LeaveRoom"
       THEN /\ send_msg({<<c, "SyncEmpty", 0>>})
            /\ Log("LeaveRoom", c, place[c].room, "ok", {<<c, "SyncEmpty", 0>>})
            /\ UNCHANGED conn
       ELSE /\ conn' = [conn EXCEPT ![c] = "ended"]
            /\ chan' = [chan EXCEPT ![c].unsent = chan[c].rx /\ pc[c].arg[1]]
            /\ Log("ConnectionEnd", c, place[c].room, "ok", {})

\* leave_room: state.write().await under the room's write guard, the room
\* is removed; then LeaveRoom sends SyncEmpty, and a connection that has
\* ended returns
leave_room_state(c) ==
    /\ pc[c].at = "state.write"
    /\ can_write(state_lock)
    /\ registry' = registry \ {rooms[place[c].room].id}
    /\ place' = [place EXCEPT ![c] = NoPlace]
    /\ EndHandler(c)
    /\ UNCHANGED <<next_id, rooms, next_tx, joined, allowed, game, res>>
    /\ IF pc[c].op = "LeaveRoom"
       THEN /\ send_msg({<<c, "SyncEmpty", 0>>})
            /\ Log("LeaveRoom", c, place[c].room, "ok", {<<c, "SyncEmpty", 0>>})
            /\ UNCHANGED conn
       ELSE /\ conn' = [conn EXCEPT ![c] = "ended"]
            /\ chan' = [chan EXCEPT ![c].unsent = chan[c].rx /\ pc[c].arg[1]]
            /\ Log("ConnectionEnd", c, place[c].room, "ok", {})

\* MakeMove up to the Ok arm: r.room.write().await, the test of the turn
\* and check_move; a request that is refused ends here
MakeMove_check(c, first, last, dir) ==
    /\ AtLoop(c)
    /\ place[c] # NoPlace => can_write(OwnLock(c))
    /\ IF \/ place[c] = NoPlace
          \/ not_players_turn(rooms[place[c].room], place[c].player_idx)
          \/ ~IsOk(check_move(rooms[place[c].room].game, first, last, dir))
       THEN MakeMove(c, first, last, dir)
       ELSE /\ Len(rooms[place[c].room].game.history) < MaxMovesGuards
            /\ pc' = [pc EXCEPT ![c] =
                        [at |-> "submit_move", op |-> "MakeMove",
                         arg |-> <<first, last, dir>>,
                         m |-> check_move(rooms[place[c].room].game, first, last, dir),
                         checked |-> Snapshot(rooms[place[c].room].game)]]
            /\ room_locks' = [room_locks EXCEPT ![place[c].room] = WrittenBy(@, c)]
            /\ UNCHANGED <<state_lock, dvars, game, res>>

\* MakeMove, the Ok arm: submit_move of the outcome check_move gave, the
\* flag, the broadcast; a panic in submit_move unwinds the task
MakeMove_submit(c) ==
    /\ pc[c].at = "submit_move"
    /\ UNCHANGED <<game, res>>
    /\ EndHandler(c)
    /\ LET r == place[c].room
           room == rooms[r]
           m == pc[c].m
           msgs == {<<p, "AppliedMove", r>> : p \in Occupants(room)}
       IN  IF apply_panics(room.game, m)
           THEN /\ rooms' = [rooms EXCEPT ![r].game = submit_move(room.game, m)]
                /\ conn' = [conn EXCEPT ![c] = "panicked"]
                /\ place' = [place EXCEPT ![c] = NoPlace]
                /\ Log("MakeMove", c, pc[c].arg, "panic", {})
                /\ UNCHANGED <<next_id, registry, next_tx, chan, joined, allowed>>
           ELSE /\ rooms' = [rooms EXCEPT ![r].game = submit_move(room.game, m),
                                          ![r].undo_requested = FALSE]
                /\ send_msg(msgs)
                /\ LogMove(c, pc[c].arg, msgs, m)
                /\ UNCHANGED <<conn, place, next_id, registry, next_tx, joined, allowed>>

NextGuards ==
    \/ \E c \in Conns : Connect(c)
    \/ \E c \in Conns : \E waiting \in BOOLEAN : ConnectionEnd_room(c, waiting)
    \/ \E c \in Conns : leave_room_state(c)
    \/ \E c \in Conns : CreateRoom_guarded(c)
    \/ \E c \in Conns : ListRooms_state(c)
    \/ \E c \in Conns : ListRooms_room(c)
    \/ \E c \in Conns : Sync_guarded(c)
    \/ \E c \in Conns : \E room_id \in RoomIds : RequestJoinRoom_state(c, room_id)
    \/ \E c \in Conns : RequestJoinRoom_room(c)
    \/ \E c \in Conns : \E t \in TxIds : AllowJoinRoom_guarded(c, t)
    \/ \E c \in Conns : \E room_id \in RoomIds : \E t \in TxIds :
           JoinRoom_state(c, room_id, t)
    \/ \E c \in Conns : JoinRoom_room(c)
    \/ \E c \in Conns : LeaveRoom_room(c)
    \/ \E c \in Conns : \E mv \in Moves : MakeMove_check(c, mv[1], mv[2], mv[3])
    \/ \E c \in Conns : MakeMove_submit(c)
    \/ \E c \in Conns : RequestUndo_guarded(c)
    \/ \E c \in Conns : AllowUndo_guarded(c)

SpecGuards == Init /\ [][NextGuards]_vars

(***************************************************************************)
(* Properties of the rule engine (checked under SpecEngine)                *)
(***************************************************************************)
\* between two calls: the board is the one the last submit_move, undo_move
\* or redo_move left (every such board is passed through with no call
\* recorded, after Reject or Deselect)
Idle == res = NoCall

\* the positions the board can be asked about: the 9 x 9 grid and the ring
\* of positions around it
Probes == {<<x, y>> : x \in (0 - 1)..SIZE, y \in (0 - 1)..SIZE}

OutsideHexagon(pos) ==
    \/ pos[1] < 0 \/ pos[1] >= 9
    \/ pos[2] < 0 \/ pos[2] >= 9
    \/ pos[1] - pos[2] >= 5
    \/ pos[2] - pos[1] >= 5

\* C3: on every board reached from the opening by submitting outcomes that
\* check_move has just returned Ok, no cell outside the hexagon (x or y
\* outside [0,9), x - y >= 5 or y - x >= 5) holds a ball, and get and
\* get_mut answer None for every such position.
C3_HexagonOnly ==
    \A pos \in Probes :
        OutsideHexagon(pos) =>
            /\ get(game, pos) = None
            /\ get_mut(game, pos) = None
            /\ OnGrid(pos) => Index(game.balls, pos) = Empty

\* a ball has just been pushed over the rim, and the position it was pushed
\* to holds nothing
C3_Witness ==
    /\ res.op = "submit_move"
    /\ res.move.tag = "PushedOff"
    /\ LET v == norm(PosSub(res.move.last, res.move.first))
           beyond == PosAdd(res.move.last, v)
       IN  OutsideHexagon(beyond) /\ get(game, beyond) = None

\* the number of balls of colour c in a row from pos on, in direction v
RECURSIVE RunLen(_, _, _, _)
RunLen(g, pos, v, c) ==
    IF get(g, pos) = c THEN 1 + RunLen(g, PosAdd(pos, v), v, c) ELSE 0

\* the recorded check_move call is in forward motion
ForwardCall ==
    /\ res.op = "check_move"
    /\ \/ res.first = res.last
       \/ norm(PosSub(res.last, res.first)) \in {DirVec(res.dir), VecNeg(DirVec(res.dir))}
\* the rearmost selected cell of that call, its own balls and the opposing
\* balls right in front of them
Rear ==
    IF res.first # res.last /\ norm(PosSub(res.last, res.first)) = VecNeg(DirVec(res.dir))
    THEN res.last ELSE res.first
OwnForce == RunLen(game, Rear, DirVec(res.dir), game.turn)
OpposingFirst == PosAdd(Rear, VecMul(DirVec(res.dir), OwnForce))
OpposingForce == RunLen(game, OpposingFirst, DirVec(res.dir), opposite(game.turn))

\* C4: check_move in forward motion returns PushedAway or PushedOff only
\* when the own balls pushing (1 to 3) are strictly more than the opposing
\* balls ahead of them; with as many or more opposing balls it fails with
\* TooManyOpposing that starts at the first opposing ball; one own ball
\* against one opposing ball fails with TooManyOpposing whose first and last
\* are the opposing ball, whether the cell behind it is empty or off the
\* board.
C4_PushNeedsMajority ==
    ForwardCall =>
        /\ res.result.tag \in {"PushedAway", "PushedOff"} =>
               OwnForce \in 1..3 /\ OwnForce > OpposingForce
        /\ (/\ res.first = res.last
            /\ OwnForce = 1
            /\ OpposingForce = 1
            /\ get(game, PosAdd(OpposingFirst, DirVec(res.dir))) \in {Empty, None}) =>
               res.result = ErrTooManyOpposing(OpposingFirst, OpposingFirst)
        /\ (/\ res.first = res.last
            /\ OwnForce \in 1..3
            /\ OpposingForce >= 2
            /\ OpposingForce >= OwnForce) =>
               /\ res.result.tag = "TooManyOpposing"
               /\ res.result.first = OpposingFirst

\* a board on which one ball meets one opposing ball with nothing behind it,
\* and check_move has been asked to push
C4_Witness ==
    /\ ForwardCall
    /\ res.first = res.last
    /\ OwnForce = 1
    /\ OpposingForce = 1
    /\ get(game, PosAdd(OpposingFirst, DirVec(res.dir))) \in {Empty, None}

\* what the six directions say about one selection
MoveResults(g, sel) == [d \in DirSet |-> check_move(g, sel[1], sel[2], d)]
SomeDirOk(g, sel) == \E d \in DirSet : IsOk(MoveResults(g, sel)[d])

\* C5 as stated: check_selection is Ok exactly when check_move is Ok for one
\* of the six directions, and whenever no direction succeeds its error is
\* NoPossibleMove.
C5_SelectionIffSomeMove ==
    Idle =>
        \A sel \in Selections :
            LET r == check_selection(game, sel[1], sel[2]) IN
            /\ IsOk(r) <=> SomeDirOk(game, sel)
            /\ ~SomeDirOk(game, sel) => r = ErrNoPossibleMove

\* C5 as the code has it: an Ok check_selection means some direction is Ok;
\* the error is NoPossibleMove exactly when all six directions fail with a
\* MoveError; when no direction fails with a SelectionError, check_selection
\* is Ok exactly when some direction is; and any other error of
\* check_selection is the SelectionError of the first direction, in the
\* order PosX, PosY, PosZ, NegX, NegY, NegZ, that fails with one.
C5_SelectionScan ==
    Idle =>
        \A sel \in Selections :
            LET r == check_selection(game, sel[1], sel[2])
                m == MoveResults(game, sel)
                sel_err == {i \in 1..6 : m[Dirs[i]].kind = "Selection"}
            IN
            /\ IsOk(r) => SomeDirOk(game, sel)
            /\ r = ErrNoPossibleMove <=> \A d \in DirSet : m[d].kind = "Move"
            /\ sel_err = {} => (IsOk(r) <=> SomeDirOk(game, sel))
            /\ (~IsOk(r) /\ r # ErrNoPossibleMove) =>
                   /\ sel_err # {}
                   /\ r = m[Dirs[CHOOSE i \in sel_err : \A j \in sel_err : i <= j]]

\* check_selection has answered NoPossibleMove for a selection of own balls
\* that every direction blocks
C5_Witness ==
    /\ res.op = "check_selection"
    /\ res.result = ErrNoPossibleMove
    /\ get(game, res.first) = game.turn
    /\ ~SomeDirOk(game, <<res.first, res.last>>)

\* C6: for every outcome check_move returns Ok on the board, the turn after
\* apply_move is the opposite of the turn before, whichever of Moved,
\* PushedAway and PushedOff the outcome is.
C6_TurnFlips ==
    Idle =>
        \A sel \in Selections : \A d \in DirSet :
            LET r == check_move(game, sel[1], sel[2], d) IN
            IsOk(r) => apply_move(game, r).turn = opposite(game.turn)

\* a PushedAway outcome has just been applied and the turn has changed hands
C6_Witness ==
    /\ res.op = "submit_move"
    /\ res.move.tag = "PushedAway"
    /\ game.turn = opposite(res.before.turn)

Handled(op) == done'.op = op
\* the room part of a Room: board, turn, slots, transactions, undo flag
RoomsUnchanged == rooms' = rooms /\ registry' = registry

\* C1: a MakeMove changes a room's board only when the caller is in a slot
\* of that room, the board's turn is the colour of that slot and check_move
\* on the room's board returns Ok; and then the outcome is applied (cells
\* moved, turn passed on), the undo flag is cleared and AppliedMove is
\* queued to every occupant of the room.
C1_MakeMoveApplies ==
    [][Handled("MakeMove") =>
        LET c == done'.conn
            mv == done'.arg
            r == place[c].room
            idx == place[c].player_idx
            accepted ==
                /\ place[c] # NoPlace
                /\ rooms[r].players[idx + 1] = c
                /\ rooms[r].game.turn = PlayerColor(idx)
                /\ IsOk(check_move(rooms[r].game, mv[1], mv[2], mv[3]))
        IN  /\ \A x \in 1..Len(rooms) :
                Snapshot(rooms'[x].game) # Snapshot(rooms[x].game) => accepted /\ x = r
            /\ accepted =>
                LET m == check_move(rooms[r].game, mv[1], mv[2], mv[3]) IN
                /\ rooms'[r].game.balls = apply_balls(rooms[r].game.balls, m).balls
                /\ ~apply_balls(rooms[r].game.balls, m).panicked
                /\ rooms'[r].game.turn = opposite(rooms[r].game.turn)
                /\ ~rooms'[r].undo_requested
                /\ \A p \in Occupants(rooms[r]) : <<p, "AppliedMove", r>> \in done'.sent
    ]_vars

\* C2: a MakeMove that is rejected (the caller is in no room, it is not the
\* caller's turn, or check_move returns an error) leaves every room's board,
\* turn, slots, transactions and undo flag, and the registry, as they were.
C2_RejectedMoveChangesNothing ==
    [][Handled("MakeMove") =>
        LET c == done'.conn
            mv == done'.arg
            r == place[c].room
            rejected ==
                \/ place[c] = NoPlace
                \/ rooms[r].game.turn # PlayerColor(place[c].player_idx)
                \/ ~IsOk(check_move(rooms[r].game, mv[1], mv[2], mv[3]))
        IN  rejected => RoomsUnchanged /\ place' = place /\ done'.result = "error"
    ]_vars

\* a player whose turn it is has had a move rejected by the rule engine
C2_Witness ==
    /\ done.op = "MakeMove"
    /\ done.result = "error"
    /\ place[done.conn] # NoPlace
    /\ LET room == rooms[place[done.conn].room] IN
       /\ room.game.turn = PlayerColor(place[done.conn].player_idx)
       /\ ~IsOk(check_move(room.game, done.arg[1], done.arg[2], done.arg[3]))
       /\ Cardinality(Occupants(room)) = 2

\* C8: when a player leaves a room whose other slot is empty, the room is
\* removed from the registry; when the other slot is occupied, the room
\* stays in the registry, the leaver's slot is empty and a Sync of the room
\* is queued to the remaining occupant.
C8_LeaveRoom ==
    [][(Handled("LeaveRoom") \/ Handled("ConnectionEnd")) /\ place[done'.conn] # NoPlace =>
        LET c == done'.conn
            r == place[c].room
            idx == place[c].player_idx
            other == rooms[r].players[2 - idx]
        IN  IF other = None
            THEN r \notin registry'
            ELSE /\ r \in registry => r \in registry'
                 /\ rooms'[r].players[idx + 1] = None
                 /\ rooms'[r].players[2 - idx] = other
                 /\ <<other, "Sync", r>> \in done'.sent
    ]_vars

\* T is not a pending transaction of room R
NotPending(R, T) ==
    R \in 1..Len(rooms) => \A t \in rooms[R].transactions : t[1] # T

\* C9: JoinRoom(R, T) with T not pending for R is answered with an Error,
\* leaves every room and the registry unchanged and the caller where it was;
\* and no transaction id lets a second JoinRoom succeed.
C9_JoinNeedsPendingTransaction ==
    [][Handled("JoinRoom") =>
        LET c == done'.conn
            R == done'.arg[1]
            T == done'.arg[2]
        IN  /\ NotPending(R, T) =>
                /\ done'.result = "error"
                /\ done'.sent = {<<c, "Error", 0>>}
                /\ RoomsUnchanged
                /\ place' = place
            /\ done'.result = "ok" => T \notin joined
    ]_vars

\* a connection in the Lobby has been refused a JoinRoom with a transaction
\* that an earlier JoinRoom had consumed
C9_Witness ==
    /\ done.op = "JoinRoom"
    /\ done.result = "error"
    /\ done.arg[1] \in registry
    /\ done.arg[2] \in joined
    /\ place[done.conn] = NoPlace

\* C10: once the connection that requested transaction T has disconnected,
\* an AllowJoinRoom(T) by the room's occupant is answered with an Error and
\* queues no JoinRoomAllowed, and no JoinRoom succeeds with T.
C10_DisconnectedRequester ==
    [][/\ Handled("AllowJoinRoom") =>
            LET c == done'.conn
                T == done'.arg
                room == rooms[place[c].room]
            IN  (/\ place[c] # NoPlace
                 /\ TxPending(room, T)
                 /\ conn[Requester(room, T)] = "ended") =>
                    /\ done'.result = "error"
                    /\ \A m \in done'.sent : m[2] # "JoinRoomAllowed"
       /\ (Handled("JoinRoom") /\ done'.result = "ok") =>
            conn[Requester(rooms[done'.arg[1]], done'.arg[2])] # "ended"
    ]_vars

(***************************************************************************)
(* Slots, guards and waiting                                               *)
(***************************************************************************)
\* the slots <<room, index>> of registered rooms that hold c's session
SlotsOf(c) ==
    {<<r, i>> \in registry \X {0, 1} : rooms[r].players[i + 1] = c}

\* C11: CreateRoom works from the Lobby only, so a connection's session is
\* in at most one slot over all registered rooms, the slot its own
\* Lobby/InRoom state records, and in no slot once it has left or
\* disconnected.
C11_OneSlotPerConnection ==
    \A c \in Conns :
        /\ Cardinality(SlotsOf(c)) <= 1
        /\ place[c] # NoPlace => SlotsOf(c) \subseteq {<<place[c].room, place[c].player_idx>>}
        /\ (place[c] = NoPlace /\ conn[c] # "panicked") => SlotsOf(c) = {}

\* C12: between check_move and the application of its outcome the handler
\* holds the room's write guard and nobody else holds a guard of that room,
\* and the board is still the one that was checked; a leave that waits for
\* the registry holds its room's write guard in the same way.
C12_CheckedBoardIsApplied ==
    \A c \in Conns :
        /\ pc[c].at = "submit_move" =>
               /\ OwnLock(c) = [w |-> c, r |-> {}]
               /\ Snapshot(rooms[place[c].room].game) = pc[c].checked
               /\ IsOk(pc[c].m)
               /\ pc[c].m = check_move(rooms[place[c].room].game,
                                       pc[c].arg[1], pc[c].arg[2], pc[c].arg[3])
        /\ pc[c].at = "state.write" => OwnLock(c) = [w |-> c, r |-> {}]

\* a move has been checked and not yet applied, and another connection is
\* waiting for the write guard of that room
C12_Witness ==
    \E c \in Conns : \E x \in Conns \ {c} :
        /\ pc[c].at = "submit_move"
        /\ pc[x].at = "open_room.write"
        /\ pc[x].arg[1] = place[c].room

\* the connections that hold the guard c's handler is waiting for
WaitsFor(c) ==
    IF pc[c].at = "state.write" THEN Holders(state_lock) \ {c}
    ELSE IF pc[c].at = "open_room.write" THEN Holders(room_locks[pc[c].arg[1]]) \ {c}
    ELSE IF pc[c].at = "r.read" THEN {room_locks[pc[c].arg[1]].w} \ {None, c}
    ELSE {}
\* the connections c waits for, directly or through others
RECURSIVE WaitsForWithin(_, _)
WaitsForWithin(c, n) ==
    IF n = 0 THEN {}
    ELSE WaitsFor(c) \cup UNION {WaitsForWithin(x, n - 1) : x \in WaitsFor(c)}
CyclicWait == \E c \in Conns : c \in WaitsForWithin(c, Cardinality(Conns))

\* C13: the handlers never wait for each other's guards in a cycle (in
\* which none of them would ever complete): every handler that has started
\* can still come to its end.
C13_NoCyclicWait == ~CyclicWait

(***************************************************************************)
(* Undo negotiation, connection end and errors (checked under Spec)        *)
(***************************************************************************)
\* the session in the other slot of c's room, or None
OtherPlayer(c) == rooms[place[c].room].players[2 - place[c].player_idx]

\* C14: RequestUndo is accepted only from a connection in a room, when the
\* turn is not the caller's colour, a move has been made and the other slot
\* is occupied; and then the undo flag is set, UndoRequested is queued to
\* the other occupant and to nobody else, and board and turn stay.
C14_RequestUndo ==
    [][(Handled("RequestUndo") /\ done'.result = "ok") =>
        LET c == done'.conn
            r == place[c].room
        IN  /\ place[c] # NoPlace
            /\ rooms[r].game.turn # PlayerColor(place[c].player_idx)
            /\ rooms[r].game.history # <<>>
            /\ OtherPlayer(c) # None
            /\ rooms'[r].undo_requested
            /\ done'.sent = {<<OtherPlayer(c), "UndoRequested", r>>}
            /\ rooms'[r].game = rooms[r].game
            /\ rooms'[r].players = rooms[r].players
    ]_vars

\* C15: AllowUndo is accepted only from a connection in a room, when the
\* turn is the caller's colour and a move has been made; and then board and
\* turn are those from before the last applied move, the undo flag is
\* cleared and a Sync of the room is queued to every occupant.
C15_AllowUndo ==
    [][(Handled("AllowUndo") /\ done'.result = "ok") =>
        LET c == done'.conn
            r == place[c].room
        IN  /\ place[c] # NoPlace
            /\ rooms[r].game.turn = PlayerColor(place[c].player_idx)
            /\ rooms[r].game.history # <<>>
            /\ LET h == rooms[r].game.history[Len(rooms[r].game.history)] IN
               Snapshot(rooms'[r].game) = [balls |-> h.balls, turn |-> h.turn]
            /\ ~rooms'[r].undo_requested
            /\ \A p \in Occupants(rooms[r]) : <<p, "Sync", r>> \in done'.sent
    ]_vars

\* C16: the end of a connection that is in a room does to the room what
\* LeaveRoom does: the slot is emptied, a remaining occupant is sent a Sync,
\* the room is removed when nobody remains; and a connection that has ended
\* handles no request any more.
C16_DisconnectLeaves ==
    [][/\ (Handled("ConnectionEnd") /\ place[done'.conn] # NoPlace) =>
            LET c == done'.conn
                r == place[c].room
            IN  /\ rooms' = [rooms EXCEPT ![r] = LeftRoom(c)]
                /\ rooms'[r].players[place[c].player_idx + 1] = None
                /\ OtherPlayer(c) # None =>
                       /\ <<OtherPlayer(c), "Sync", r>> \in done'.sent
                       /\ registry' = registry
                /\ OtherPlayer(c) = None => registry' = registry \ {r}
                /\ conn'[c] = "ended"
       /\ \A c \in Conns :
            (conn[c] = "ended" /\ done' # done /\ done'.conn = c) =>
                done'.op = "sender_task"
    ]_vars

\* C17: a frame that does not decode gets one Error, to its sender; the
\* connection stays open, and its Lobby/InRoom state, the rooms, the
\* registry and the channels are as if the frame had not been sent.
C17_MalformedMessage ==
    [][Handled("CodecError") =>
        /\ done'.sent = {<<done'.conn, "Error", 0>>}
        /\ done'.result = "error"
        /\ conn' = conn /\ conn[done'.conn] = "live"
        /\ UNCHANGED <<place, next_id, registry, rooms, next_tx, chan, joined, allowed>>
    ]_vars

\* a connection seated in a room with a join request pending has sent a
\* frame that does not decode
C17_Witness ==
    /\ done.op = "CodecError"
    /\ place[done.conn] # NoPlace
    /\ rooms[place[done.conn].room].transactions # {}

\* C18: a request refused with an error of the room or session queues one
\* Error, to the caller and to nobody else; the caller stays connected and
\* where it was, Lobby or room.
C18_RejectionToCallerOnly ==
    [][(done'.result = "error" /\ done' # done) =>
        /\ done'.sent = {<<done'.conn, "Error", 0>>}
        /\ conn' = conn /\ conn[done'.conn] = "live"
        /\ place' = place
    ]_vars

\* RequestUndo has been refused because nobody else is in the room
C18_Witness ==
    /\ done.op = "RequestUndo"
    /\ done.result = "error"
    /\ place[done.conn] # NoPlace
    /\ rooms[place[done.conn].room].game.history # <<>>
    /\ rooms[place[done.conn].room].game.turn # PlayerColor(place[done.conn].player_idx)
    /\ OtherPlayer(done.conn) = None

(***************************************************************************)
(* Sideward motion and mixed selections (checked under SpecEngine)         *)
(***************************************************************************)
\* the cells of the selection from first to last
Span(sel) ==
    CellsAlong(sel[1], norm(PosSub(sel[2], sel[1])), 0, mag(PosSub(sel[2], sel[1])))
\* two or three cells in a line, all with a ball of the player on turn,
\* and a direction across the line
SidewardCase(g, sel, d) ==
    /\ sel[1] # sel[2]
    /\ is_multiple_of_unit_vec(PosSub(sel[2], sel[1]))
    /\ mag(PosSub(sel[2], sel[1])) \in {1, 2}
    /\ \A i \in 1..Len(Span(sel)) : get(g, Span(sel)[i]) = g.turn
    /\ DirVec(d) # norm(PosSub(sel[2], sel[1]))
    /\ DirVec(d) # VecNeg(norm(PosSub(sel[2], sel[1])))
\* the cells the selection would move to, from first to last
Destinations(sel, d) ==
    [i \in 1..Len(Span(sel)) |-> PosAdd(Span(sel)[i], DirVec(d))]

\* C19: in sideward motion of two or three own balls check_move returns
\* Moved{dir, first, last} exactly when every destination is on the board
\* and empty; NotFree with the occupied destinations, from first to last,
\* when all are on the board and some are occupied; and MoveError::PushedOff
\* when a destination is off the board.
C19_SidewardMotion ==
    Idle =>
        \A sel \in Selections : \A d \in DirSet :
            SidewardCase(game, sel, d) =>
                LET r == check_move(game, sel[1], sel[2], d)
                    dst == Destinations(sel, d)
                    occupied == SelectSeq(dst, LAMBDA p : get(game, p) \in Colors)
                    off == \E i \in 1..Len(dst) : get(game, dst[i]) = None
                IN  /\ r = Moved(d, sel[1], sel[2]) <=>
                           \A i \in 1..Len(dst) : get(game, dst[i]) = Empty
                    /\ (~off /\ occupied # <<>>) => r = ErrNotFree(occupied)
                    /\ off => (r.kind = "Move" /\ r.tag = "PushedOff")

\* check_move has answered NotFree for two own balls moved sideward, both
\* of whose destinations are occupied
C19_Witness ==
    /\ res.op = "check_move"
    /\ SidewardCase(game, <<res.first, res.last>>, res.dir)
    /\ res.result.tag = "NotFree"
    /\ Len(res.result.cells) = 2

\* C20: in forward motion, when the first opposing ball of the walk from
\* first lies in the selected span (its last cell included), check_move
\* fails with MixedSet of the cells from that ball to the end of the
\* selection, in the order of the walk.
C20_MixedSetForward ==
    Idle =>
        \A sel \in Selections : \A d \in DirSet :
            LET vec == PosSub(sel[2], sel[1])
                cells == Span(sel)
                opposing == {i \in 2..Len(cells) : get(game, cells[i]) = opposite(game.turn)}
                k == CHOOSE i \in opposing : \A j \in opposing : i <= j
            IN  (/\ vec # ZERO
                 /\ is_multiple_of_unit_vec(vec)
                 /\ mag(vec) \in {1, 2}
                 /\ norm(vec) = DirVec(d)
                 /\ get(game, sel[1]) = game.turn
                 /\ opposing # {}
                 /\ \A i \in 2..(k - 1) : get(game, cells[i]) = game.turn) =>
                    check_move(game, sel[1], sel[2], d) =
                        ErrMixedSet(SubSeq(cells, k, Len(cells)))

(***************************************************************************)
(* Selection errors and the limit of three (checked under SpecEngine)      *)
(***************************************************************************)
\* C21: a SelectionError does not depend on the direction: a selection that
\* check_move refuses with a SelectionError in one direction is refused
\* with a SelectionError in all six.
C21_SelectionErrorAnyDirection ==
    Idle =>
        \A sel \in Selections : \A d1 \in DirSet : \A d2 \in DirSet :
            check_move(game, sel[1], sel[2], d1).kind = "Selection" =>
                check_move(game, sel[1], sel[2], d2).kind = "Selection"

\* the cells an outcome's line covers that hold a ball of the player on turn
OwnInLine(g, m) ==
    {i \in 1..Len(Span(<<m.first, m.last>>)) : get(g, Span(<<m.first, m.last>>)[i]) = g.turn}

GridCells == {<<x, y>> : x \in 0..(SIZE - 1), y \in 0..(SIZE - 1)}
\* the step an outcome moves its line by, and whether p is on that line
StepOf(m) == IF m.tag = "Moved" THEN DirVec(m.dir) ELSE norm(PosSub(m.last, m.first))
OnLine(m, p) ==
    \E i \in 0..mag(PosSub(m.last, m.first)) :
        p = PosAdd(m.first, VecMul(norm(PosSub(m.last, m.first)), i))
\* what cell q holds once outcome m is applied to balls: the ball one step
\* behind when that cell is on the line (the last ball of a PushedOff line
\* is dropped), nothing when q is vacated, its own content otherwise; a
\* position outside the array holds nothing
ShiftedCell(balls, m, q) ==
    LET from == PosSub(q, StepOf(m)) IN
    IF OnLine(m, from) /\ ~(m.tag = "PushedOff" /\ from = m.last)
    THEN IF OnGrid(from) THEN Index(balls, from) ELSE Empty
    ELSE IF (m.tag = "Moved" /\ OnLine(m, q)) \/ (m.tag # "Moved" /\ q = m.first)
    THEN Empty
    ELSE Index(balls, q)

C22_OnlyRequesterJoins ==
    [][(Handled("JoinRoom") /\ done'.result = "ok") =>
        <<done'.arg[2], done'.conn>> \in rooms[done'.arg[1]].transactions
    ]_vars

\* C23: a JoinRoom with transaction T succeeds only after an AllowJoinRoom(T)
\* by an occupant of the room has succeeded.
C23_AllowBeforeJoin ==
    [][(Handled("JoinRoom") /\ done'.result = "ok") => done'.arg[2] \in allowed]_vars

\* C24: RequestJoinRoom(R) is accepted only from the Lobby, for a
\* registered R with one slot occupied; then one transaction with a fresh
\* id and the caller is added to R, JoinRoomRequested with that id is
\* queued to R's occupant and to nobody else, and slots, board and undo
\* flag of R stay; otherwise the caller gets an Error and R stays as it is.
C24_RequestJoinRoom ==
    [][(done' # done /\ done'.op = "RequestJoinRoom") =>
        LET c == done'.conn
            R == done'.arg
            T == next_tx
        IN  /\ done'.result = "ok" =>
                /\ place[c] = NoPlace
                /\ R \in registry
                /\ Cardinality(Occupants(rooms[R])) = 1
                /\ \A r \in registry : ~TxPending(rooms[r], T)
                /\ T \notin joined
                /\ rooms' = [rooms EXCEPT ![R].transactions = @ \cup {<<T, c>>}]
                /\ \E p \in Occupants(rooms[R]) :
                        done'.sent = {<<p, "JoinRoomRequested", T>>}
            /\ done'.result # "ok" =>
                /\ done'.sent = {<<c, "Error", 0>>}
                /\ rooms' = rooms
    ]_vars

\* C29: a JoinRoom(R, T) refused because both slots of R are occupied
\* leaves the pending transactions of R as they were, T among them.
C29_FullRoomKeepsTransaction ==
    [][(/\ Handled("JoinRoom")
        /\ done'.result = "error"
        /\ place[done'.conn] = NoPlace
        /\ done'.arg[1] \in registry
        /\ TxPending(rooms[done'.arg[1]], done'.arg[2])) =>
            rooms'[done'.arg[1]].transactions = rooms[done'.arg[1]].transactions
    ]_vars

(***************************************************************************)
(* The clients' copies of the room (checked under Spec)                    *)
(***************************************************************************)
\* the slots of registered rooms that hold connection c after the step
SlotsOf_after(c) ==
    {r \in registry' : \E i \in 1..2 : rooms'[r].players[i] = c}

\* C25: once a connection held in a slot of R has folded everything queued
\* for it, its local board and turn are those the server holds for R; and
\* the AppliedMove and Sync messages a client folds are of the room it is
\* in.
C25_ClientFollowsRoom ==
    [][(done' # done \/ local' # local) =>
        /\ \A c \in Conns : \A r \in SlotsOf_after(c) :
                conn'[c] = "live" =>
                    /\ local'[c].at = "InRoom"
                    /\ local'[c].room = r
                    /\ local'[c].game = Snapshot(rooms'[r].game)
        /\ \A m \in done'.sent :
                (conn'[m[1]] = "live" /\ local[m[1]].at = "InRoom") =>
                    /\ m[2] = "Sync" => local[m[1]].room = m[3]
                    /\ m[2] = "AppliedMove" => local[m[1]].room = m[3]
    ]_vars

(***************************************************************************)
(* The end of a session (checked under SpecLobbyFair)                      *)
(***************************************************************************)
\* C26: once a connection's receive path has returned, its outbound queue
\* is eventually closed and its sender_task has ended, whatever clones of
\* its session the slots and the transactions still hold.
C26_SendPathEnds ==
    \A c \in Conns : (conn[c] = "ended") ~> ~chan[c].rx

(***************************************************************************)
(* Vec2::is_parallel (checked under SpecVec)                               *)
(***************************************************************************)
\* C28: is_parallel(a, b) holds exactly when the cross product of a and b
\* is zero and neither is the zero vector, or both are the zero vector; a
\* zero vector is never parallel to a non-zero one; and is_parallel(a, b)
\* equals is_parallel(b, a).
C28_Parallel ==
    res.op = "is_parallel" =>
        LET a == res.a
            b == res.b
            cross == a[1] * b[2] - a[2] * b[1]
        IN  /\ res.result <=>
                    \/ cross = 0 /\ a # ZERO /\ b # ZERO
                    \/ a = ZERO /\ b = ZERO
            /\ ((a = ZERO) # (b = ZERO)) => ~res.result
            /\ res.result = is_parallel(b, a)

\* is_parallel has answered for the zero vector and a non-zero one
C28_Witness ==
    /\ res.op = "is_parallel"
    /\ res.a = ZERO
    /\ res.b = <<3, 2>>
    /\ ~res.result

(***************************************************************************)
(* Ball counts and the selected span (checked under SpecEngine)            *)
(***************************************************************************)
\* the number of balls of a colour on the board
Count(balls, colour) == Cardinality({q \in GridCells : Index(balls, q) = colour})

\* outcome m applied to before by the player mover gave after: as many own
\* balls as before, one opposing ball fewer for PushedOff, as many otherwise
CountsKept(before, after, mover, m) ==
    /\ Count(after, mover) = Count(before, mover)
    /\ Count(after, opposite(mover)) =
            Count(before, opposite(mover)) - (IF m.tag = "PushedOff" THEN 1 ELSE 0)

C32_SpanIsOwn ==
    Idle =>
        \A sel \in Selections : \A d \in DirSet :
            IsOk(check_move(game, sel[1], sel[2], d)) =>
                \A i \in 1..Len(Span(sel)) : get(game, Span(sel)[i]) = game.turn

\* C33: for two positions a, b of the board and a direction, check_move
\* answers Ok for [a, b] exactly when it does for [b, a], and the two
\* outcomes applied give the same board.
C33_EndsCommute ==
    Idle =>
        \A sel \in Selections : \A d \in DirSet :
            (is_in_bounds(sel[1]) /\ is_in_bounds(sel[2])) =>
                LET ab == check_move(game, sel[1], sel[2], d)
                    ba == check_move(game, sel[2], sel[1], d)
                IN  /\ IsOk(ab) <=> IsOk(ba)
                    /\ (IsOk(ab) /\ IsOk(ba)) =>
                            apply_balls(game.balls, ab) = apply_balls(game.balls, ba)

(***************************************************************************)
(* Positions off the board (checked under SpecWire)                        *)
(***************************************************************************)
\* C38: for positions of any i8 coordinates and every direction check_move
\* returns, with no overflow in last - first, in the negation or in the
\* walk; and a selection with an end outside the board is never accepted.
C38_NoOverflow ==
    (res.op = "check_move" /\ "overflow_checks" \in DOMAIN res) =>
        /\ res.result.kind # "Panic"
        /\ (~is_in_bounds(res.first) \/ ~is_in_bounds(res.last)) => ~IsOk(res.result)

\* the payload of an answer fits its StackVec, and is not empty
PayloadFits(r) ==
    /\ (r.kind = "Selection" /\ r.tag = "MixedSet") => Len(r.cells) \in 1..MixedSetCapacity
    /\ (r.kind = "Move" /\ r.tag = "NotFree") => Len(r.cells) \in 1..NotFreeCapacity

\* C39: on every board, for every selection and direction, the MixedSet
\* payload of check_move holds 1 or 2 cells and the NotFree payload 1 to 3
\* cells, so no push exceeds the capacity of its StackVec.
C39_PayloadsFit ==
    Idle =>
        \A sel \in Selections : \A d \in DirSet :
            PayloadFits(check_move(game, sel[1], sel[2], d))

\* a board on which one call fills NotFree with three cells and another
\* fills MixedSet with two
C39_Witness ==
    /\ Idle
    /\ \E sel \in Selections : \E d \in DirSet :
          LET r == check_move(game, sel[1], sel[2], d)
          IN  r.kind = "Move" /\ r.tag = "NotFree" /\ Len(r.cells) = NotFreeCapacity
    /\ \E sel \in Selections : \E d \in DirSet :
          LET r == check_move(game, sel[1], sel[2], d)
          IN  r.kind = "Selection" /\ r.tag = "MixedSet" /\ Len(r.cells) = MixedSetCapacity

(***************************************************************************)
(* Undo requests and the registry (checked under Spec)                     *)
(***************************************************************************)
\* C34: a room's board is undone only while an undo request is pending:
\* when an AllowUndo succeeds, the room's undo flag is set, as a RequestUndo
\* sets it and every accepted MakeMove and AllowUndo clears it.
C34_UndoOnlyOnRequest ==
    [][(Handled("AllowUndo") /\ done'.result = "ok") =>
            rooms[place[done'.conn].room].undo_requested
    ]_vars

\* C35: a RequestUndo refused because no other player is in the room
\* leaves the room's undo flag as it was.
C35_RefusedRequestKeepsFlag ==
    [][(/\ Handled("RequestUndo")
        /\ done'.result = "error"
        /\ place[done'.conn] # NoPlace
        /\ OtherPlayer(done'.conn) = None) =>
            rooms'[place[done'.conn].room].undo_requested
                = rooms[place[done'.conn].room].undo_requested
    ]_vars

\* C37: once every connection that was opened has ended, and its end has
\* been handled, no room is registered.
C37_NoRoomOutlivesPlayers ==
    (\A c \in Conns : conn[c] \in {"idle", "ended"}) => registry = {}

(***************************************************************************)
(* Empty rooms (checked under SpecGuards)                                  *)
(***************************************************************************)
\* C36: a registered room whose guard nobody holds has an occupied slot.
C36_NoEmptyRoomRegistered ==
    \A r \in registry :
        room_locks[r] = Unlocked => Occupants(rooms[r]) # {}

\* leave_room has emptied the last slot of a room that is still registered,
\* under the room's write guard
C36_Witness ==
    \E r \in registry :
        /\ Occupants(rooms[r]) = {}
        /\ room_locks[r].w # None

====
